---- MODULE Spec2Model ----
(***************************************************************************)
(* A model of DXFProcessor::DXFReader (src/src/DXFReader.cpp and its       *)
(* header): readFile, parseFile, parse3DFaceFromLines and reportProgress.  *)
(*                                                                         *)
(* A text line is a sequence of one-character strings, so that trimming,   *)
(* std::stoi and std::stod are computed character by character.  A double  *)
(* is held as an integer number of tenths; the value lines of the input    *)
(* files carry at most one fractional digit and no exponent, so the        *)
(* conversion is exact on them.  A progress value is a fraction <<n, d>>.  *)
(* Cursors are 0-based as in the code: Line(ls, k) is lines[k].            *)
(***************************************************************************)
EXTENDS Integers, Sequences, FiniteSets, TLC

\* ------------------------------------------------------------ bounds
\* Longest tail of arbitrary lines in the exhaustively enumerated files.
MaxTail == 3
\* Number of 3DFACE entities in the largest generated file.
BigFaces == 200

\* ------------------------------------------------- program constants
\* parseFile: lastEntityCount_ % 100 == 0
ProgressEvery == 100
\* std::stoi throws std::out_of_range outside the range of int
IntMax == 2147483647

\* ------------------------------------------------------- characters
WhiteSpace == {" ", "\t", "\r", "\n", "\f"}
TrimTrailing == {" ", "\t", "\r", "\n"}
TrimLeading == {" ", "\t"}
DigitChars == <<"0", "1", "2", "3", "4", "5", "6", "7", "8", "9">>
IsDigit(c) == \E d \in 1..10 : DigitChars[d] = c
DigitVal(c) == (CHOOSE d \in 1..10 : DigitChars[d] = c) - 1

\* line.erase(line.find_last_not_of(" \t\r\n") + 1)
RECURSIVE TrimRight(_)
TrimRight(s) ==
    IF s # <<>> /\ s[Len(s)] \in TrimTrailing
    THEN TrimRight(SubSeq(s, 1, Len(s) - 1))
    ELSE s

\* line.erase(0, line.find_first_not_of(" \t"))
RECURSIVE TrimLeft(_)
TrimLeft(s) ==
    IF s # <<>> /\ s[1] \in TrimLeading THEN TrimLeft(Tail(s)) ELSE s

\* Mutant: the start of the line is not trimmed.
TrimLineRightOnly(s) == TrimRight(s)

TrimLine(s) == TrimLeft(TrimRight(s))

\* The first position >= p of s that holds no white space (Len(s)+1 if none).
RECURSIVE SkipSpace(_, _)
SkipSpace(s, p) ==
    IF p <= Len(s) /\ s[p] \in WhiteSpace THEN SkipSpace(s, p + 1) ELSE p

\* The first position >= p of s that holds no digit (Len(s)+1 if none).
RECURSIVE DigitsEnd(_, _)
DigitsEnd(s, p) ==
    IF p <= Len(s) /\ IsDigit(s[p]) THEN DigitsEnd(s, p + 1) ELSE p

\* The decimal value of the digits s[p..q] (0 when p > q).
RECURSIVE DigitsValue(_, _, _)
DigitsValue(s, p, q) ==
    IF p > q THEN 0 ELSE DigitsValue(s, p, q - 1) * 10 + DigitVal(s[q])

SignEnd(s, p) == IF p <= Len(s) /\ s[p] \in {"+", "-"} THEN p + 1 ELSE p
SignOf(s, p) == IF p <= Len(s) /\ s[p] = "-" THEN -1 ELSE 1

\* std::stoi(s): white space, an optional sign, then the longest run of
\* digits; what follows the digits is ignored.  ok is FALSE where stoi throws
\* (no digit: std::invalid_argument; out of int's range: std::out_of_range).
Stoi(s) ==
    LET p == SkipSpace(s, 1)
        q == SignEnd(s, p)
        e == DigitsEnd(s, q)
        v == SignOf(s, p) * DigitsValue(s, q, e - 1)
    IN  IF e = q \/ v > IntMax \/ v < -IntMax - 1
        THEN [ok |-> FALSE, val |-> 0]
        ELSE [ok |-> TRUE, val |-> v]

\* std::stod(s): white space, an optional sign, digits, an optional point and
\* digits; at least one digit is needed, what follows is ignored.  val is in
\* tenths.  ok is FALSE where stod throws std::invalid_argument.
Stod(s) ==
    LET p == SkipSpace(s, 1)
        q == SignEnd(s, p)
        e == DigitsEnd(s, q)
        hasPoint == e <= Len(s) /\ s[e] = "."
        f == IF hasPoint THEN DigitsEnd(s, e + 1) ELSE e
        nInt == e - q
        nFrac == IF hasPoint THEN f - (e + 1) ELSE 0
        tenth == IF nFrac > 0 THEN DigitVal(s[e + 1]) ELSE 0
    IN  IF nInt + nFrac = 0
        THEN [ok |-> FALSE, val |-> 0]
        ELSE [ok |-> TRUE,
              val |-> SignOf(s, p) * (DigitsValue(s, q, e - 1) * 10 + tenth)]

\* ------------------------------------------------------------ lines
S0 == <<"0">>
S2 == <<"2">>
SECTION == <<"S", "E", "C", "T", "I", "O", "N">>
ENTITIES == <<"E", "N", "T", "I", "T", "I", "E", "S">>
ENDSEC == <<"E", "N", "D", "S", "E", "C">>
FACE3D == <<"3", "D", "F", "A", "C", "E">>
HEADER == <<"H", "E", "A", "D", "E", "R">>
EOFNAME == <<"E", "O", "F">>
K10 == <<"1", "0">>
K11 == <<"1", "1">>
K12 == <<"1", "2">>
K13 == <<"1", "3">>
K20 == <<"2", "0">>
K21 == <<"2", "1">>
K22 == <<"2", "2">>
K30 == <<"3", "0">>
K32 == <<"3", "2">>
K8 == <<"8">>
V1 == <<"1">>
V3 == <<"3">>
V5 == <<"5">>
V7 == <<"7">>
V10p0 == <<"1", "0", ".", "0">>
V1p5 == <<"1", ".", "5">>
VNeg4 == <<"-", "4">>
JUNK == <<"x">>

\* Line k (0-based) of the line array ls.
Line(ls, k) == ls[k + 1]

\* ------------------------------------------------------ input files
Hdr == <<S0, SECTION, S2, ENTITIES>>
HdrOther == <<S0, SECTION, S2, HEADER>>
End == <<S0, ENDSEC>>
Trailer == <<S0, ENDSEC, S0, EOFNAME>>
Face(body) == <<S0, FACE3D>> \o body

\* Well-formed entity bodies: aligned code/value pairs, numeric x values for
\* codes 10, 11 and 12.
BodyXOnly == <<K10, V1, K11, V3, K12, V5>>
BodyFull ==
    <<K8, S0, K10, V10p0, K20, V7, K11, VNeg4, K21, V1p5, K12, V3, K32, V5>>
BodyQuad == <<K10, V7, K11, V5, K12, V3, K13, V1>>
GoodBodies == {BodyXOnly, BodyFull, BodyQuad}
\* Malformed entity bodies: a missing vertex, a group code without its value
\* line, a non-numeric x value, stray lines.
BodyMissing == <<K10, V1, K11, V3>>
BodyDangling == <<K10, V1, K11, V3, K12>>
BodyNoValue == <<K10>>
BodyBadX == <<K10, JUNK, K11, V3, K12, V5>>
BodyStray == <<JUNK, K10, V3, K11, V5, K12, V7>>
BodyBlank == <<K10, V3, <<>>, K11, V5>>
BodyEmpty == <<>>
BadBodies ==
    {BodyMissing, BodyDangling, BodyNoValue, BodyBadX, BodyStray, BodyBlank,
     BodyEmpty}
EntitySlots == {<<>>} \cup {Face(b) : b \in GoodBodies \cup BadBodies}

\* Files of up to two entities with the section markers around them.
StructuredFiles ==
    {pre \o e1 \o mid \o e2 \o suf :
        pre \in {Hdr, HdrOther},
        e1 \in EntitySlots,
        mid \in {<<>>, End, End \o Hdr},
        e2 \in EntitySlots,
        suf \in {<<>>, Trailer}}

\* Every file of up to MaxTail lines over the marker lines, bare or after an
\* ENTITIES header: files truncated inside a marker or a pair.
TailLines == {S0, S2, SECTION, ENDSEC, FACE3D, K10}
SeqsUpTo(S, n) == UNION {[1..m -> S] : m \in 0..n}
TruncatedFiles ==
    {pre \o t : pre \in {<<>>, Hdr}, t \in SeqsUpTo(TailLines, MaxTail)}

\* n copies of block, one after the other.
Repeat(block, n) ==
    [k \in 1..(n * Len(block)) |-> block[((k - 1) % Len(block)) + 1]]

\* A file large enough for the every-100th-entity progress reports.
BigFile == Hdr \o Repeat(Face(BodyXOnly), BigFaces) \o Trailer

\* The same text with CRLF line ends, and indented with trailing blanks.
WithCR(f) == [k \in DOMAIN f |-> Append(f[k], "\r")]
Indented(f) == [k \in DOMAIN f |-> <<" ", "\t">> \o f[k] \o <<"\t", " ">>]
SampleFile == Hdr \o Face(BodyFull) \o Face(BodyXOnly) \o Trailer
SpacedFiles == {WithCR(SampleFile), Indented(SampleFile)}

RegularFiles ==
    StructuredFiles \cup TruncatedFiles \cup SpacedFiles \cup {BigFile}

\* std::filesystem::file_size: every line and its line end.
RECURSIVE FileSize(_)
FileSize(raw) ==
    IF raw = <<>> THEN 0
    ELSE IF Len(raw) = 1 THEN Len(raw[1]) + 1
    ELSE FileSize(SubSeq(raw, 1, Len(raw) \div 2))
         + FileSize(SubSeq(raw, Len(raw) \div 2 + 1, Len(raw)))

\* Regular files with lines to read whose size the file system reports as 0:
\* file_size is a query of its own, made before the lines are read (a file
\* of a process file system, a file whose writer has not finished).
SizelessFiles == {BigFile, SampleFile}

\* What a path can name: nothing, a directory, a regular file that cannot be
\* opened, or a readable regular file holding the lines raw, with the size
\* file_size reports for it.
Paths ==
    {[kind |-> k, raw |-> <<>>, size |-> 0] :
        k \in {"missing", "directory", "unreadable"}}
    \cup {[kind |-> "regular", raw |-> f, size |-> FileSize(f)] :
              f \in RegularFiles}
    \cup {[kind |-> "regular", raw |-> f, size |-> 0] : f \in SizelessFiles}

\* The getline loop of parseFile: every line trimmed.
ReadLines(raw) == [k \in DOMAIN raw |-> TrimLine(raw[k])]

\* --------------------------------------------------------- geometry
Point3D(x, y, z) == [x |-> x, y |-> y, z |-> z]
Origin == Point3D(0, 0, 0)
Triangle(v0, v1, v2) == <<v0, v1, v2>>
NoVertices == <<Origin, Origin, Origin>>
NoHasVertex == <<FALSE, FALSE, FALSE>>

\* Point3D::operator+, operator-, dot, cross.
PointPlus(a, b) == Point3D(a.x + b.x, a.y + b.y, a.z + b.z)
PointMinus(a, b) == Point3D(a.x - b.x, a.y - b.y, a.z - b.z)
dot(a, b) == a.x * b.x + a.y * b.y + a.z * b.z

\* Mutant: a sign slip in the third component.
crossSignSlip(a, b) ==
    Point3D(a.y * b.z - a.z * b.y,
            a.z * b.x - a.x * b.z,
            a.x * b.y + a.y * b.x)

cross(a, b) ==
    Point3D(a.y * b.z - a.z * b.y,
            a.z * b.x - a.x * b.z,
            a.x * b.y - a.y * b.x)

\* The arithmetic on vectors is exact: a square root is kept as the product
\* of a rational coefficient <<n, d>> and the root of a whole radicand.
Sqrt(n) == [coef |-> <<1, 1>>, radicand |-> n]
\* r * (n / d)
RootTimes(r, n, d) ==
    [coef |-> <<r.coef[1] * n, r.coef[2] * d>>, radicand |-> r.radicand]
\* The square of r, a fraction.
RootSquared(r) ==
    <<r.coef[1] * r.coef[1] * r.radicand, r.coef[2] * r.coef[2]>>
RootIsZero(r) == r.coef[1] = 0 \/ r.radicand = 0
RootIsNegative(r) == (r.coef[1] * r.coef[2] < 0) /\ r.radicand # 0

\* Mutant: the z term is left out.
magnitudePlanar(a) == Sqrt(a.x * a.x + a.y * a.y)

\* Point3D::magnitude
magnitude(a) == Sqrt(a.x * a.x + a.y * a.y + a.z * a.z)

\* Triangle::normal, Triangle::area
normal(t) == cross(PointMinus(t[2], t[1]), PointMinus(t[3], t[1]))

\* Mutant: the area of the parallelogram.
areaNotHalved(t) == magnitude(normal(t))

area(t) == RootTimes(magnitude(normal(t)), 1, 2)

\* Triangle::center: the sum of the vertices times 1/3, each coordinate a
\* fraction.
center(t) ==
    [x |-> <<t[1].x + t[2].x + t[3].x, 3>>,
     y |-> <<t[1].y + t[2].y + t[3].y, 3>>,
     z |-> <<t[1].z + t[2].z + t[3].z, 3>>]

\* std::numeric_limits<double>::max() and lowest() in the unit of the model:
\* beyond every coordinate.
DoubleMax == 1000000000
DoubleLowest == -DoubleMax

Min(a, b) == IF b < a THEN b ELSE a
Max(a, b) == IF a < b THEN b ELSE a

\* Mutant: a box that starts as the origin.
BoundingBoxAtOrigin == [min |-> Origin, max |-> Origin]

\* BoundingBox::BoundingBox: min at the greatest value, max at the least.
BoundingBox ==
    [min |-> Point3D(DoubleMax, DoubleMax, DoubleMax),
     max |-> Point3D(DoubleLowest, DoubleLowest, DoubleLowest)]

\* Mutant: only min is pulled toward the point.
expandMinOnly(box, point) ==
    [min |-> Point3D(Min(box.min.x, point.x), Min(box.min.y, point.y),
                     Min(box.min.z, point.z)),
     max |-> box.max]

\* BoundingBox::expand
expand(box, point) ==
    [min |-> Point3D(Min(box.min.x, point.x), Min(box.min.y, point.y),
                     Min(box.min.z, point.z)),
     max |-> Point3D(Max(box.max.x, point.x), Max(box.max.y, point.y),
                     Max(box.max.z, point.z))]

\* BoundingBox::isEmpty
BoxIsEmpty(box) ==
    box.min.x > box.max.x \/ box.min.y > box.max.y \/ box.min.z > box.max.z

\* The box expanded with the points of a sequence, in order.
RECURSIVE ExpandAll(_, _)
ExpandAll(box, points) ==
    IF points = <<>> THEN box
    ELSE ExpandAll(expand(box, Head(points)), Tail(points))

\* The vertices of the triangles of a mesh, in order.
RECURSIVE VerticesOf(_)
VerticesOf(mesh) ==
    IF mesh = <<>> THEN <<>> ELSE Head(mesh) \o VerticesOf(Tail(mesh))

\* Mutant: only the first triangle is looked at.
getBoundingBoxOfFirst(mesh) ==
    ExpandAll(BoundingBox, IF mesh = <<>> THEN <<>> ELSE Head(mesh))

\* MeshData::getBoundingBox
getBoundingBox(mesh) == ExpandAll(BoundingBox, VerticesOf(mesh))

\* MeshData::addTriangle, on the vector of triangles
addTriangle(triangles, triangle) == Append(triangles, triangle)

\* Mutant: the first triangle survives.
clearAllButFirst(triangles) ==
    IF triangles = <<>> THEN <<>> ELSE <<Head(triangles)>>

\* MeshData::clear
clear(triangles) == <<>>

\* MeshData::getTriangleCount
getTriangleCount(triangles) == Len(triangles)

\* MeshData::isEmpty
MeshIsEmpty(triangles) == triangles = <<>>

\* MeshData::reserve, on the capacity of the vector: std::vector::reserve
\* grows the storage to n places when it has fewer and leaves it otherwise.
reserve(capacity, n) == IF n > capacity THEN n ELSE capacity

\* ------------------------------------------------------- the summary
\* The numbers of a summary are fractions <<n, d>> in lowest terms, d > 0.
Abs(n) == IF n < 0 THEN -n ELSE n
RECURSIVE GCD(_, _)
GCD(a, b) == IF b = 0 THEN a ELSE GCD(b, a % b)
Frac(n, d) ==
    LET g == GCD(Abs(n), Abs(d))
        s == IF d < 0 THEN -1 ELSE 1
    IN  <<(s * n) \div g, (s * d) \div g>>
FracOf(n) == <<n, 1>>
FracAdd(a, b) == Frac(a[1] * b[2] + b[1] * a[2], a[2] * b[2])
FracSub(a, b) == Frac(a[1] * b[2] - b[1] * a[2], a[2] * b[2])
FracMul(a, b) == Frac(a[1] * b[1], a[2] * b[2])
FracLess(a, b) == a[1] * b[2] < b[1] * a[2]
FracAbs(a) == <<Abs(a[1]), a[2]>>
FracMin(a, b) == IF FracLess(b, a) THEN b ELSE a
FracMax(a, b) == IF FracLess(a, b) THEN b ELSE a

\* The division of two doubles: by 0 it gives an infinity, <<1, 0>> or
\* <<-1, 0>>, or no number, <<0, 0>>, when the dividend is 0 too.
FracDiv(a, b) ==
    IF b[1] # 0 THEN Frac(a[1] * b[2], a[2] * b[1])
    ELSE IF a[1] = 0 THEN <<0, 0>>
    ELSE IF a[1] > 0 THEN <<1, 0>> ELSE <<-1, 0>>

\* The number of places after the point that std::to_string writes.
Places == 1000000

\* std::to_string of a double that is not negative: the number of
\* millionths nearest to it, or the name of what is not a number.
to_string(v) ==
    IF v[2] # 0 THEN (2 * v[1] * Places + v[2]) \div (2 * v[2])
    ELSE IF v[1] = 0 THEN "nan"
    ELSE IF v[1] > 0 THEN "inf" ELSE "-inf"

\* The whole root of a square.
ExactRoot(n) == CHOOSE r \in 0..n : r * r = n

\* The value of a root whose radicand is a square.
RootValue(r) == Frac(r.coef[1] * ExactRoot(r.radicand), r.coef[2])

\* BoundingBox::size, BoundingBox::volume
BoxSize(box) == PointMinus(box.max, box.min)
volume(box) == BoxSize(box).x * BoxSize(box).y * BoxSize(box).z

\* MeshData::getTotalSurfaceArea
RECURSIVE getTotalSurfaceArea(_)
getTotalSurfaceArea(triangles) ==
    IF triangles = <<>> THEN FracOf(0)
    ELSE FracAdd(getTotalSurfaceArea(SubSeq(triangles, 1, Len(triangles) - 1)),
                 RootValue(area(triangles[Len(triangles)])))

\* A point of fractions; the product of one and a number; the sum of two.
FracPoint(p) == [x |-> FracOf(p.x), y |-> FracOf(p.y), z |-> FracOf(p.z)]
FracPointTimes(p, f) ==
    [x |-> FracMul(p.x, f), y |-> FracMul(p.y, f), z |-> FracMul(p.z, f)]
FracPointPlus(p, q) ==
    [x |-> FracAdd(p.x, q.x), y |-> FracAdd(p.y, q.y), z |-> FracAdd(p.z, q.z)]

\* The sum over the triangles of center * area.
RECURSIVE WeightedCenters(_)
WeightedCenters(triangles) ==
    IF triangles = <<>> THEN FracPoint(Origin)
    ELSE FracPointPlus(
             WeightedCenters(SubSeq(triangles, 1, Len(triangles) - 1)),
             FracPointTimes(center(triangles[Len(triangles)]),
                            RootValue(area(triangles[Len(triangles)]))))

\* Mutant: the centre of the bounding box of no triangles.
calculateCentroidNoGuard(triangles) ==
    FracPointTimes(FracPoint(PointPlus(getBoundingBox(triangles).min,
                                       getBoundingBox(triangles).max)),
                   <<1, 2>>)

\* MeshSummarizer::calculateCentroid
calculateCentroid(triangles) ==
    IF MeshIsEmpty(triangles) THEN FracPoint(Origin)
    ELSE IF FracLess(FracOf(0), getTotalSurfaceArea(triangles))
    THEN FracPointTimes(WeightedCenters(triangles),
                        FracDiv(FracOf(1), getTotalSurfaceArea(triangles)))
    ELSE WeightedCenters(triangles)

\* MeshSummary as constructed, and MeshSummary::addCustomField
MeshSummary ==
    [triangleCount |-> 0, boundingBox |-> BoundingBox,
     totalSurfaceArea |-> FracOf(0), centroid |-> FracPoint(Origin),
     customFields |-> <<>>]
addCustomField(summary, key, value) ==
    [summary EXCEPT !.customFields =
        [k \in DOMAIN summary.customFields \cup {key} |->
            IF k = key THEN value ELSE summary.customFields[k]]]

\* MeshSummarizer::calculateBasicStats
calculateBasicStats(triangles, summary) ==
    [summary EXCEPT !.triangleCount = getTriangleCount(triangles),
                    !.boundingBox = getBoundingBox(triangles),
                    !.totalSurfaceArea = getTotalSurfaceArea(triangles),
                    !.centroid = calculateCentroid(triangles)]

\* Mutant: the fields are added for a mesh of no triangles too.
calculateAdvancedStatsNoGuard(triangles, summary) ==
    addCustomField(summary, "mesh_density", "nan")

\* MeshSummarizer::calculateAdvancedStats
calculateAdvancedStats(triangles, summary) ==
    IF MeshIsEmpty(triangles) THEN summary
    ELSE
      LET vol == FracOf(volume(summary.boundingBox))
          s1 == addCustomField(summary, "mesh_density",
                    to_string(FracDiv(FracOf(summary.triangleCount), vol)))
          s2 == addCustomField(s1, "average_triangle_area",
                    to_string(FracDiv(summary.totalSurfaceArea,
                                     FracOf(summary.triangleCount))))
          s3 == addCustomField(s2, "bounding_box_volume", to_string(vol))
          s4 == addCustomField(s3, "width",
                    to_string(FracOf(BoxSize(summary.boundingBox).x)))
          s5 == addCustomField(s4, "height",
                    to_string(FracOf(BoxSize(summary.boundingBox).y)))
      IN  addCustomField(s5, "depth",
              to_string(FracOf(BoxSize(summary.boundingBox).z)))

\* DetailedMeshSummarizer::calculateVolume
RECURSIVE SignedVolume(_)
SignedVolume(triangles) ==
    IF triangles = <<>> THEN FracOf(0)
    ELSE LET t == triangles[Len(triangles)]
         IN  FracAdd(SignedVolume(SubSeq(triangles, 1, Len(triangles) - 1)),
                     Frac(dot(t[1], cross(t[2], t[3])), 6))
calculateVolume(triangles) ==
    IF MeshIsEmpty(triangles) THEN FracOf(0)
    ELSE FracAbs(SignedVolume(triangles))

\* DetailedMeshSummarizer::calculateAverageTriangleArea
calculateAverageTriangleArea(triangles) ==
    IF MeshIsEmpty(triangles) THEN FracOf(0)
    ELSE FracDiv(getTotalSurfaceArea(triangles),
                 FracOf(getTriangleCount(triangles)))

\* DetailedMeshSummarizer::getTriangleAreaRange
RECURSIVE AreaRange(_)
AreaRange(triangles) ==
    IF triangles = <<>> THEN <<FracOf(DoubleMax), FracOf(DoubleLowest)>>
    ELSE LET rest == AreaRange(SubSeq(triangles, 1, Len(triangles) - 1))
             a == RootValue(area(triangles[Len(triangles)]))
         IN  <<FracMin(rest[1], a), FracMax(rest[2], a)>>
getTriangleAreaRange(triangles) ==
    IF MeshIsEmpty(triangles) THEN <<FracOf(0), FracOf(0)>>
    ELSE AreaRange(triangles)

\* The number of triangles whose area is under half the average, and of
\* those whose area is over twice the average.
smallTriangles(triangles) ==
    Cardinality({k \in 1..Len(triangles) :
        FracLess(RootValue(area(triangles[k])),
                 FracMul(calculateAverageTriangleArea(triangles), <<1, 2>>))})
largeTriangles(triangles) ==
    Cardinality({k \in 1..Len(triangles) :
        FracLess(FracMul(calculateAverageTriangleArea(triangles), FracOf(2)),
                 RootValue(area(triangles[k])))})

\* MeshSummarizer::addCustomCalculations: nothing is added.
addCustomCalculations(triangles, summary) == summary

\* Mutant: the fields of the area range are left out.
addDetailedCalculationsNoRange(triangles, summary) ==
    IF MeshIsEmpty(triangles) THEN summary
    ELSE addCustomField(summary, "volume_estimate",
             to_string(calculateVolume(triangles)))

\* DetailedMeshSummarizer::addCustomCalculations
addDetailedCalculations(triangles, summary) ==
    IF MeshIsEmpty(triangles) THEN summary
    ELSE
      LET range == getTriangleAreaRange(triangles)
          count == FracOf(summary.triangleCount)
          s1 == addCustomField(summary, "volume_estimate",
                    to_string(calculateVolume(triangles)))
          s2 == addCustomField(s1, "min_triangle_area", to_string(range[1]))
          s3 == addCustomField(s2, "max_triangle_area", to_string(range[2]))
          s4 == addCustomField(s3, "triangle_area_variance",
                    to_string(FracSub(range[2], range[1])))
          s5 == addCustomField(s4, "compactness_ratio",
                    to_string(FracDiv(summary.totalSurfaceArea,
                        FracOf(volume(summary.boundingBox)))))
          s6 == addCustomField(s5, "average_triangle_area_detailed",
                    to_string(calculateAverageTriangleArea(triangles)))
          s7 == addCustomField(s6, "small_triangles_count",
                    smallTriangles(triangles))
          s8 == addCustomField(s7, "large_triangles_count",
                    largeTriangles(triangles))
          s9 == addCustomField(s8, "small_triangles_percentage",
                    to_string(FracMul(FracDiv(FracOf(smallTriangles(triangles)),
                                             count), FracOf(100))))
      IN  addCustomField(s9, "large_triangles_percentage",
              to_string(FracMul(FracDiv(FracOf(largeTriangles(triangles)),
                                       count), FracOf(100))))

\* MeshSummarizer::summarize, of the basic and of the detailed summarizer
summarize(triangles) ==
    addCustomCalculations(triangles,
        calculateAdvancedStats(triangles,
            calculateBasicStats(triangles, MeshSummary)))
summarizeDetailed(triangles) ==
    addDetailedCalculations(triangles,
        calculateAdvancedStats(triangles,
            calculateBasicStats(triangles, MeshSummary)))

\* A reader as constructed: no callback, the count 0.
NewReader ==
    [kind |-> "reader", progressCallback_ |-> FALSE, lastEntityCount_ |-> 0]
UnknownReaderType(readerType) ==
    [kind |-> "DXFReaderException", message |-> "Unknown reader type: ",
     readerType |-> readerType]

\* DXFReaderFactory::createReader()
createReaderDefault == NewReader

\* Mutant: every name gives the standard reader.
createReaderLenient(readerType) == NewReader

\* DXFReaderFactory::createReader(readerType)
createReader(readerType) ==
    IF readerType = "standard" \/ readerType = ""
    THEN NewReader
    ELSE UnknownReaderType(readerType)

\* --------------------------------------------------- the summary writer
\* A path is the sequence of its names below the current directory, <<>>,
\* and a name is the sequence of its parts: "file.txt" is <<"file", ".txt">>.
\* A file system is the set of its directories and the content of each of
\* its regular files. The empty string is <<>>.
CurrentDirectory == <<>>
Prefixes(path) == {SubSeq(path, 1, k) : k \in 1..Len(path)}
Parent(path) == SubSeq(path, 1, Len(path) - 1)

\* The directories in which nothing can be created.
ReadOnlyDirectories == {<< <<"ro">> >>}

\* std::filesystem::exists, is_directory
exists(fs, path) ==
    path = CurrentDirectory \/ path \in fs.dirs \/ path \in DOMAIN fs.files
is_directory(fs, path) == path = CurrentDirectory \/ path \in fs.dirs

\* std::filesystem::create_directories throws when a name on the way is a
\* regular file or a directory it has to create in is read-only.
CreateFails(fs, path) ==
    \E p \in Prefixes(path) :
        \/ p \in DOMAIN fs.files
        \/ p \notin fs.dirs /\ Parent(p) \in ReadOnlyDirectories
create_directories(fs, path) ==
    [fs EXCEPT !.dirs = fs.dirs \cup Prefixes(path)]

\* The outcomes of a call of the writer.
Done == [kind |-> "done"]
Returned(path) == [kind |-> "returned", path |-> path]
SummaryWriterException(message) ==
    [kind |-> "SummaryWriterException", message |-> message]

\* Mutant: every path passes.
validateOutputDirectoryAny(fs, path) == FALSE

\* SummaryWriter::validateOutputDirectory: TRUE when it throws.
validateOutputDirectory(fs, path) ==
    exists(fs, path) /\ ~is_directory(fs, path)

\* SummaryWriter::ensureOutputDirectoryExists: the file system after it and
\* whether it threw, and what.
ensureOutputDirectoryExists(fs, outputDirectory_) ==
    IF ~exists(fs, outputDirectory_) /\ CreateFails(fs, outputDirectory_)
    THEN [fs |-> fs, outcome |->
             SummaryWriterException("Cannot create output directory: ")]
    ELSE
      LET made == IF exists(fs, outputDirectory_) THEN fs
                  ELSE create_directories(fs, outputDirectory_)
      IN  IF validateOutputDirectory(made, outputDirectory_)
          THEN [fs |-> made, outcome |-> SummaryWriterException(
                   "Output path exists but is not a directory: ")]
          ELSE [fs |-> made, outcome |-> Done]

\* Mutant: every format is written with the extension of JSON.
getFileExtensionJson(format) == ".json"

\* SummaryWriter::getFileExtension
getFileExtension(format) ==
    CASE format = "JSON" -> ".json"
      [] format = "TEXT" -> ".txt"
      [] format = "CSV" -> ".csv"
      [] OTHER -> ".txt"

\* SummaryWriter::generateFilename: the base name, the time when asked for,
\* the extension.
generateFilename(baseName, extension, includeTimestamp_, now) ==
    IF includeTimestamp_ THEN <<baseName, "_", now, extension>>
    ELSE <<baseName, extension>>

\* std::ofstream opens the file: its directory is there and can be written
\* in, and the name is not that of a directory.
Opens(fs, fullPath) ==
    /\ is_directory(fs, Parent(fullPath))
    /\ Parent(fullPath) \notin ReadOnlyDirectories
    /\ ~is_directory(fs, fullPath)

\* std::filesystem::absolute
absolute(path) == << <<"/">>, <<"cwd">> >> \o path

\* The file system with the content written to the file.
WriteFile(fs, fullPath, content) ==
    [fs EXCEPT !.files = [p \in DOMAIN fs.files \cup {fullPath} |->
                             IF p = fullPath THEN content ELSE fs.files[p]]]

\* SummaryWriter::writeToFile: the file system after it, lastOutputPath_
\* and what it returned or threw. The content is named by the formatter.
writeToFile(fs, w, baseName, now) ==
    LET ensured == ensureOutputDirectoryExists(fs, w.outputDirectory_)
        fullPath == w.outputDirectory_ \o
                        <<generateFilename(baseName,
                              getFileExtension(w.format_),
                              w.includeTimestamp_, now)>>
    IN  IF ensured.outcome # Done
        THEN [fs |-> ensured.fs, lastOutputPath_ |-> w.lastOutputPath_,
              outcome |-> ensured.outcome]
        ELSE IF ~Opens(ensured.fs, fullPath)
        THEN [fs |-> ensured.fs, lastOutputPath_ |-> w.lastOutputPath_,
              outcome |-> SummaryWriterException(
                              "Cannot create output file: ")]
        ELSE [fs |-> WriteFile(ensured.fs, fullPath, w.format_),
              lastOutputPath_ |-> absolute(fullPath),
              outcome |-> Returned(absolute(fullPath))]

\* SummaryWriter::setOutputDirectory: the directory is stored before it is
\* validated.
setOutputDirectory(fs, directory) ==
    IF validateOutputDirectory(fs, directory)
    THEN [fs |-> fs, outcome |-> SummaryWriterException(
             "Output path exists but is not a directory: ")]
    ELSE ensureOutputDirectoryExists(fs, directory)

\* The capacities a full vector of the given size may grow to on push_back:
\* the growth policy is the library's.
GrownCapacities(size) == {size + 1, Max(size + 1, 2 * size)}

\* ------------------------------------------------- files read again
\* The files whose outcome is remembered when a read of them is over.
RereadFiles ==
    {SampleFile, Hdr \o Face(BodyNoValue) \o Face(BodyXOnly)}
NoEarlier == [lines |-> <<>>, mesh |-> <<>>, count |-> 0, result |-> "none"]

\* ------------------------------------------------------------ state
VARIABLES
    pc,                 \* "idle", "scan" (main loop), "face" (subroutine), "done"
    progressCallback_,  \* whether a progress callback is registered
    lastEntityCount_,   \* the reader's entity counter
    pathKind,           \* what the path of the current read names
    hadCount,           \* history: lastEntityCount_ was not 0 when the current
                        \* read was called (the reader had parsed entities)
    earlier,            \* history: the lines and the outcome of the latest
                        \* read of one of RereadFiles that is over
    fileSize,           \* parseFile's fileSize
    lines,              \* parseFile's trimmed lines
    i,                  \* parseFile's cursor
    inEntitiesSection,  \* parseFile's section flag
    meshData,           \* the mesh being built: a sequence of triangles
    index,              \* the subroutine's index (the caller's nextEntityIndex)
    vertices,           \* the subroutine's vertex buffer
    hasVertex,          \* the subroutine's populated marks
    progressValues,     \* the values the callback received during this read
    result,             \* "none", "mesh", or the kind of failure of the read
    calc                \* the operation on geometry or on an entity text under
                        \* way in CalcSpec: its inputs, then also its outputs

readerVars ==
    <<pc, progressCallback_, lastEntityCount_, pathKind, hadCount, earlier,
      fileSize, lines, i, inEntitiesSection, meshData, index, vertices,
      hasVertex, progressValues, result>>

vars == <<readerVars, calc>>

\* No operation under way.
NoCalc == [op |-> "none"]

\* A reader after construction.
ReaderInit ==
    /\ pc = "idle"
    /\ progressCallback_ = FALSE
    /\ lastEntityCount_ = 0
    /\ pathKind = "none"
    /\ hadCount = FALSE
    /\ earlier = NoEarlier
    /\ fileSize = 0
    /\ lines = <<>>
    /\ i = 0
    /\ inEntitiesSection = FALSE
    /\ meshData = <<>>
    /\ index = 0
    /\ vertices = NoVertices
    /\ hasVertex = NoHasVertex
    /\ progressValues = <<>>
    /\ result = "none"

Init == ReaderInit /\ calc = NoCalc

\* ------------------------------------------------- progress reports
\* std::max(0.0, std::min(1.0, progress)) on a fraction <<n, d>>, d > 0.
Clamp(p) ==
    IF p[1] > p[2] THEN <<1, 1>>
    ELSE IF p[1] < 0 THEN <<0, 1>>
    ELSE p

\* Mutant: the callback is handed a percentage, unclamped.
ReportProgressPercent(registered, received, progress) ==
    IF registered
    THEN Append(received, <<progress[1] * 100, progress[2]>>)
    ELSE received

\* reportProgress: the values the callback has received, after the call.
ReportProgress(registered, received, progress) ==
    IF registered THEN Append(received, Clamp(progress)) ELSE received

\* Mutant: the callback is invoked without the test that one is registered;
\* the invocation of an empty std::function throws.
ReportProgressThrowsUnguarded(registered) == ~registered

\* What a callback that raises throws: an object of a class derived from
\* std::exception, or of any other type.
ExceptionKinds == {"std::exception", "other"}

\* The most invocations after which a callback of the model raises.
MaxReports == 3

\* The callbacks that raise: at their at-th invocation, an exception of the
\* kind raises.
RaisingCallbacks ==
    {[op |-> "callback", raises |-> kind, at |-> n] :
        kind \in ExceptionKinds, n \in 1..MaxReports}

\* The invocation of the callback that comes next is the one at which it
\* raises.
CallbackRaises ==
    calc.op = "callback" /\ Len(progressValues) + 1 = calc.at

\* reportProgress throws: never for want of a callback, which is invoked only
\* under if (progressCallback_); what the callback throws passes through.
ReportProgressThrows(registered) == registered /\ CallbackRaises

\* Mutant: catch (...) around the loop, every exception is wrapped.
RethrownCatchAll(kind) == "ParseError"

\* What reaches the caller of an exception thrown inside the try block of
\* parseFile: catch (const std::exception&) wraps the exceptions derived
\* from std::exception, any other passes as raised.
Rethrown(kind) ==
    IF kind = "std::exception" THEN "ParseError" ELSE "CallbackError"

\* Mutant: the fraction of the lines still to scan.
ProgressFractionRemaining(nextEntityIndex, size) ==
    <<size - nextEntityIndex, size>>

\* static_cast<double>(nextEntityIndex) / lines.size()
ProgressFraction(nextEntityIndex, size) == <<nextEntityIndex, size>>

\* Mutant: a report after every entity.
ProgressDueEveryEntity(count, size) == size > 0

\* lastEntityCount_ % 100 == 0 && fileSize > 0
ProgressDue(count, size) == count % ProgressEvery = 0 /\ size > 0

\* ------------------------------------------------ readFile, parseFile
\* Mutant: no is_regular_file check, a directory is opened and read as empty.
OpenOutcomeNoTypeCheck(kind) ==
    IF kind = "missing" THEN "FileNotFound"
    ELSE IF kind = "unreadable" THEN "CannotOpenFile"
    ELSE "open"

\* The checks of readFile and the open of parseFile, in the code's order.
OpenOutcome(kind) ==
    IF kind = "missing" THEN "FileNotFound"
    ELSE IF kind = "directory" THEN "NotARegularFile"
    ELSE IF kind = "unreadable" THEN "CannotOpenFile"
    ELSE "open"

\* Mutant: the count of the previous read is kept.
InitialEntityCountKept(previous) == previous

\* The entity count at the start of the scan.
InitialEntityCount(previous) == 0

SetProgressCallback(registered) ==
    /\ pc = "idle"
    /\ progressCallback_' = registered
    /\ UNCHANGED <<calc,pc, lastEntityCount_, pathKind, hadCount, earlier, fileSize, lines, i,
                   inEntitiesSection, meshData, index, vertices, hasVertex,
                   progressValues, result>>

\* Mutant: the count is reset when read is called, before the path is
\* looked at.
CountResetOnFailure(previous) == 0

\* The entity count after a read that throws before parseFile reaches
\* lastEntityCount_ = 0: no statement on that path assigns it.
CountAfterFailure(previous) == previous

\* readFile fails before the scan: nothing but the outcome changes.
ReadFileFails ==
    /\ pc = "idle"
    /\ \E path \in Paths :
        /\ OpenOutcome(path.kind) # "open"
        /\ pathKind' = path.kind
        /\ hadCount' = (lastEntityCount_ # 0)
        /\ result' = OpenOutcome(path.kind)
    /\ pc' = "done"
    /\ lastEntityCount_' = CountAfterFailure(lastEntityCount_)
    /\ UNCHANGED <<calc,progressCallback_, earlier, fileSize, lines,
                   i, inEntitiesSection, meshData, index, vertices, hasVertex,
                   progressValues>>

\* readFile and parseFile up to the start of the scan loop.
ReadFileOpens ==
    /\ pc = "idle"
    /\ \E path \in Paths :
        /\ OpenOutcome(path.kind) = "open"
        /\ pathKind' = path.kind
        /\ hadCount' = (lastEntityCount_ # 0)
        /\ fileSize' = path.size
        /\ lines' = ReadLines(path.raw)
    /\ pc' = "scan"
    /\ meshData' = <<>>
    /\ lastEntityCount_' = InitialEntityCount(lastEntityCount_)
    /\ inEntitiesSection' = FALSE
    /\ i' = 0
    /\ UNCHANGED <<calc,progressCallback_, earlier, index, vertices, hasVertex,
                   progressValues, result>>

\* ---------------------------------------------------- the scan loop
\* Mutant: the bounds tests are off by one.
HasLineOffByOne(ls, k) == k <= Len(ls)

\* k < lines.size(): the test the code makes before it reads lines[k].
HasLine(ls, k) == k < Len(ls)

\* lines[i] == "0" && i + 1 < lines.size()
AtEntityMarker(ls, k) == HasLine(ls, k + 1) /\ Line(ls, k) = S0

\* Mutant: the name of the section is not looked at.
IsAnySectionStart(ls, k) ==
    /\ AtEntityMarker(ls, k)
    /\ Line(ls, k + 1) = SECTION
    /\ k + 3 < Len(ls)

\* entityType == "SECTION" && i + 3 < lines.size()
\*   && lines[i + 2] == "2" && lines[i + 3] == "ENTITIES"
IsEntitiesStart(ls, k) ==
    /\ AtEntityMarker(ls, k)
    /\ Line(ls, k + 1) = SECTION
    /\ HasLine(ls, k + 3)
    /\ Line(ls, k + 2) = S2
    /\ Line(ls, k + 3) = ENTITIES

\* entityType == "ENDSEC"
IsSectionEnd(ls, k) == AtEntityMarker(ls, k) /\ Line(ls, k + 1) = ENDSEC

\* Mutant: the section flag is not consulted.
IsFaceStartAnywhere(ls, k, inSection) ==
    AtEntityMarker(ls, k) /\ Line(ls, k + 1) = FACE3D

\* inEntitiesSection && entityType == "3DFACE"
IsFaceStart(ls, k, inSection) ==
    AtEntityMarker(ls, k) /\ inSection /\ Line(ls, k + 1) = FACE3D

ScanEntitiesStart ==
    /\ pc = "scan"
    /\ i < Len(lines)
    /\ IsEntitiesStart(lines, i)
    /\ inEntitiesSection' = TRUE
    /\ i' = i + 4
    /\ UNCHANGED <<calc,pc, progressCallback_, lastEntityCount_, pathKind, hadCount, earlier, fileSize,
                   lines, meshData, index, vertices, hasVertex, progressValues,
                   result>>

ScanSectionEnd ==
    /\ pc = "scan"
    /\ i < Len(lines)
    /\ IsSectionEnd(lines, i)
    /\ inEntitiesSection' = FALSE
    /\ i' = i + 2
    /\ UNCHANGED <<calc,pc, progressCallback_, lastEntityCount_, pathKind, hadCount, earlier, fileSize,
                   lines, meshData, index, vertices, hasVertex, progressValues,
                   result>>

\* Triangle triangle; size_t nextEntityIndex = i + 2; the subroutine is entered.
ScanFaceStart ==
    /\ pc = "scan"
    /\ i < Len(lines)
    /\ IsFaceStart(lines, i, inEntitiesSection)
    /\ pc' = "face"
    /\ index' = i + 2
    /\ vertices' = NoVertices
    /\ hasVertex' = NoHasVertex
    /\ UNCHANGED <<calc,progressCallback_, lastEntityCount_, pathKind, hadCount, earlier, fileSize,
                   lines, i, inEntitiesSection, meshData, progressValues,
                   result>>

\* i++: no branch of the loop body took the line.
ScanAdvance ==
    /\ pc = "scan"
    /\ i < Len(lines)
    /\ ~IsEntitiesStart(lines, i)
    /\ ~IsSectionEnd(lines, i)
    /\ ~IsFaceStart(lines, i, inEntitiesSection)
    /\ i' = i + 1
    /\ UNCHANGED <<calc,pc, progressCallback_, lastEntityCount_, pathKind, hadCount, earlier, fileSize,
                   lines, inEntitiesSection, meshData, index, vertices,
                   hasVertex, progressValues, result>>

\* -------------------------------------------- parse3DFaceFromLines
\* Mutant: a line that is no group code ends the loop instead of being
\* skipped.
FaceLoopEndsOnStray(ls, idx) ==
    IF idx >= Len(ls) THEN TRUE
    ELSE IF Line(ls, idx) = S0 THEN TRUE
    ELSE IF ~Stoi(Line(ls, idx)).ok THEN TRUE
    ELSE idx + 1 >= Len(ls)

\* The loop of the subroutine ends: end of lines, a "0" line, or an integer
\* group code on the last line (the break before the value is read).
FaceLoopEnds(ls, idx) ==
    IF idx >= Len(ls) THEN TRUE
    ELSE IF Line(ls, idx) = S0 THEN TRUE
    ELSE Stoi(Line(ls, idx)).ok /\ ~HasLine(ls, idx + 1)

\* The lines that one iteration of the loop of parseFile reads with the
\* cursor at k, in the order of the code: lines[i], lines[i + 1] after its
\* test, lines[i + 2] and lines[i + 3] after theirs.  What a read past the
\* last line gives is undefined: the reads after one are left out.
ScanAccesses(ls, k) ==
    IF ~(Line(ls, k) = S0 /\ HasLine(ls, k + 1)) THEN {k}
    ELSE IF k + 1 >= Len(ls) THEN {k, k + 1}
    ELSE IF ~(Line(ls, k + 1) = SECTION /\ HasLine(ls, k + 3)) THEN {k, k + 1}
    ELSE IF k + 2 >= Len(ls) THEN {k, k + 1, k + 2}
    ELSE IF Line(ls, k + 2) = S2 THEN {k, k + 1, k + 2, k + 3}
    ELSE {k, k + 1, k + 2}

\* The lines that one iteration of the loop of the subroutine reads with
\* the index at idx: lines[index], and lines[index + 1] after the break.
FaceAccesses(ls, idx) ==
    IF Line(ls, idx) # S0 /\ Stoi(Line(ls, idx)).ok /\ HasLine(ls, idx + 1)
    THEN {idx, idx + 1}
    ELSE {idx}

\* The coordinate stored by one case of the switch: the value, or 0.0 when
\* std::stod throws.
Coordinate(value) == IF Stod(value).ok THEN Stod(value).val ELSE 0

\* Mutant: the codes of the fourth vertex are cases of the switch too, and
\* wrap around to slot 0.
StoreCoordinateFourthWraps(vs, code, value) ==
    IF code \in 10..13
    THEN [vs EXCEPT ![((code - 10) % 3) + 1].x = Coordinate(value)]
    ELSE IF code \in 20..23
    THEN [vs EXCEPT ![((code - 20) % 3) + 1].y = Coordinate(value)]
    ELSE IF code \in 30..33
    THEN [vs EXCEPT ![((code - 30) % 3) + 1].z = Coordinate(value)]
    ELSE vs

\* Mutant: the slot is the one after the slot of the pair before: the x
\* pairs fill the slots in their order in the text.
StoreCoordinateInTextOrder(vs, code, value) ==
    IF code \in 10..12
    THEN IF vs[1].x = 0 THEN [vs EXCEPT ![1].x = Coordinate(value)]
         ELSE IF vs[2].x = 0 THEN [vs EXCEPT ![2].x = Coordinate(value)]
         ELSE [vs EXCEPT ![3].x = Coordinate(value)]
    ELSE IF code \in 20..22
    THEN [vs EXCEPT ![code - 20 + 1].y = Coordinate(value)]
    ELSE IF code \in 30..32
    THEN [vs EXCEPT ![code - 30 + 1].z = Coordinate(value)]
    ELSE vs

\* The switch of the subroutine on the vertex buffer.
StoreCoordinate(vs, code, value) ==
    IF code \in 10..12
    THEN [vs EXCEPT ![code - 10 + 1].x = Coordinate(value)]
    ELSE IF code \in 20..22
    THEN [vs EXCEPT ![code - 20 + 1].y = Coordinate(value)]
    ELSE IF code \in 30..32
    THEN [vs EXCEPT ![code - 30 + 1].z = Coordinate(value)]
    ELSE vs

\* Mutant: the mark follows the latest x pair, a malformed value clears it.
MarkVertexByLatestValue(hv, code, value) ==
    IF code \in 10..12
    THEN [hv EXCEPT ![code - 10 + 1] = Stod(value).ok]
    ELSE hv

\* Mutant: the slot is marked populated whether or not the value is a number.
MarkVertexAnyValue(hv, code, value) ==
    IF code \in 10..12
    THEN [hv EXCEPT ![code - 10 + 1] = TRUE]
    ELSE hv

\* hasVertex[vertexIndex] = true: only in the x case, only after std::stod
\* returned.
MarkVertex(hv, code, value) ==
    IF code \in 10..12 /\ Stod(value).ok
    THEN [hv EXCEPT ![code - 10 + 1] = TRUE]
    ELSE hv

\* Mutant: the count is not incremented.
NextEntityCountStuck(count) == count

\* lastEntityCount_++
NextEntityCount(count) == count + 1

\* Mutant: the third slot is not checked.
FaceCompleteFirstTwo(hv) == hv[1] /\ hv[2]

\* hasVertex[0] && hasVertex[1] && hasVertex[2]
FaceComplete(hv) == hv[1] /\ hv[2] /\ hv[3]

\* Mutant: a line that is no group code is skipped with the line after it.
SkipStrayWithValue(idx) == idx + 2

\* Mutant: the handler does not move the index.
SkipStrayStuck(idx) == idx

\* index++ in the handler of the exception std::stoi throws.
SkipStray(idx) == idx + 1

\* One code/value pair: index += 2.
FacePair ==
    /\ pc = "face"
    /\ ~FaceLoopEnds(lines, index)
    /\ Stoi(Line(lines, index)).ok
    /\ vertices' = StoreCoordinate(vertices, Stoi(Line(lines, index)).val,
                                   Line(lines, index + 1))
    /\ hasVertex' = MarkVertex(hasVertex, Stoi(Line(lines, index)).val,
                               Line(lines, index + 1))
    /\ index' = index + 2
    /\ UNCHANGED <<calc,pc, progressCallback_, lastEntityCount_, pathKind, hadCount, earlier, fileSize,
                   lines, i, inEntitiesSection, meshData, progressValues,
                   result>>

\* std::stoi threw: index++.
FaceSkip ==
    /\ pc = "face"
    /\ ~FaceLoopEnds(lines, index)
    /\ ~Stoi(Line(lines, index)).ok
    /\ index' = SkipStray(index)
    /\ UNCHANGED <<calc,pc, progressCallback_, lastEntityCount_, pathKind, hadCount, earlier, fileSize,
                   lines, i, inEntitiesSection, meshData, vertices, hasVertex,
                   progressValues, result>>

\* The subroutine returns true: addTriangle, lastEntityCount_++, the
\* every-100th report, i = nextEntityIndex.
FaceReturnsTrue ==
    /\ pc = "face"
    /\ FaceLoopEnds(lines, index)
    /\ FaceComplete(hasVertex)
    /\ meshData' =
           Append(meshData, Triangle(vertices[1], vertices[2], vertices[3]))
    /\ lastEntityCount_' = NextEntityCount(lastEntityCount_)
    /\ progressValues' =
           IF ProgressDue(NextEntityCount(lastEntityCount_), fileSize)
           THEN ReportProgress(progressCallback_, progressValues,
                               ProgressFraction(index, Len(lines)))
           ELSE progressValues
    /\ IF /\ ProgressDue(NextEntityCount(lastEntityCount_), fileSize)
          /\ ReportProgressThrows(progressCallback_)
       THEN \* inside the try block: through the handler around the loop
            /\ pc' = "done"
            /\ result' = Rethrown(calc.raises)
            /\ i' = i
       ELSE /\ pc' = "scan"
            /\ result' = result
            /\ i' = index
    /\ index' = 0
    /\ vertices' = NoVertices
    /\ hasVertex' = NoHasVertex
    /\ UNCHANGED <<calc,progressCallback_, pathKind, hadCount, earlier, fileSize, lines,
                   inEntitiesSection>>

\* The subroutine returns false: the entity is dropped, i = nextEntityIndex.
FaceReturnsFalse ==
    /\ pc = "face"
    /\ FaceLoopEnds(lines, index)
    /\ ~FaceComplete(hasVertex)
    /\ i' = index
    /\ pc' = "scan"
    /\ index' = 0
    /\ vertices' = NoVertices
    /\ hasVertex' = NoHasVertex
    /\ UNCHANGED <<calc,progressCallback_, lastEntityCount_, pathKind, hadCount, earlier, fileSize,
                   lines, inEntitiesSection, meshData, progressValues, result>>

\* ------------------------------------------------------ end of scan
\* Mutant: the mesh is returned without the isEmpty check.
ScanOutcomeAlwaysMesh(mesh) == "mesh"

\* meshData->isEmpty() decides between the failure and the mesh.
ScanOutcome(mesh) == IF mesh = <<>> THEN "NoEntitiesFound" ELSE "mesh"

\* Mutant: the final report is made after the isEmpty check, so only for a
\* mesh that is returned.
FinalReportIfMesh(registered, received, mesh) ==
    IF mesh = <<>> THEN received
    ELSE ReportProgress(registered, received, <<1, 1>>)

\* The values the callback has received after the report that follows the
\* loop: reportProgress(1.0), before the mesh is looked at.
FinalReport(registered, received, mesh) ==
    ReportProgress(registered, received, <<1, 1>>)

\* The loop ended: the final report, then the mesh or NoEntitiesFound.
Finish ==
    /\ pc = "scan"
    /\ i >= Len(lines)
    /\ progressValues' = FinalReport(progressCallback_, progressValues, meshData)
    /\ result' = IF ReportProgressThrows(progressCallback_)
                 THEN "CallbackError"   \* outside the handler: not wrapped
                 ELSE ScanOutcome(meshData)
    /\ pc' = "done"
    /\ UNCHANGED <<calc,progressCallback_, lastEntityCount_, pathKind, hadCount, earlier, fileSize,
                   lines, i, inEntitiesSection, meshData, index, vertices,
                   hasVertex>>

\* The caller is done with the outcome of the read; the reader, with its
\* callback and its entity count, is ready for the next read.
Release ==
    /\ pc = "done"
    /\ pc' = "idle"
    /\ pathKind' = "none"
    /\ hadCount' = FALSE
    /\ earlier' =
           IF pathKind = "regular" /\ lines \in RereadFiles
           THEN [lines |-> lines, mesh |-> meshData,
                 count |-> lastEntityCount_, result |-> result]
           ELSE earlier
    /\ fileSize' = 0
    /\ lines' = <<>>
    /\ i' = 0
    /\ inEntitiesSection' = FALSE
    /\ meshData' = <<>>
    /\ progressValues' = <<>>
    /\ result' = "none"
    /\ UNCHANGED <<calc,progressCallback_, lastEntityCount_, index, vertices,
                   hasVertex>>

Next ==
    \/ \E registered \in BOOLEAN : SetProgressCallback(registered)
    \/ ReadFileFails
    \/ ReadFileOpens
    \/ ScanEntitiesStart
    \/ ScanSectionEnd
    \/ ScanFaceStart
    \/ ScanAdvance
    \/ FacePair
    \/ FaceSkip
    \/ FaceReturnsTrue
    \/ FaceReturnsFalse
    \/ Finish
    \/ Release

Spec == Init /\ [][Next]_vars

\* A read that was called runs on: a step of the loop of parseFile or of the
\* subroutine, or the statements after the loop, is taken when it can be.
Running ==
    \/ ScanEntitiesStart
    \/ ScanSectionEnd
    \/ ScanFaceStart
    \/ ScanAdvance
    \/ FacePair
    \/ FaceSkip
    \/ FaceReturnsTrue
    \/ FaceReturnsFalse
    \/ Finish

\* One read of a file by a reader as constructed, run to its end.
LiveNext == ReadFileOpens \/ Running

LiveSpec == Init /\ [][LiveNext]_vars /\ WF_vars(Running)

\* A reader as constructed and a callback that raises, not yet registered.
ThrowInit == ReaderInit /\ calc \in RaisingCallbacks

\* The callback is registered or not, then one read.
ThrowNext ==
    \/ \E registered \in BOOLEAN : SetProgressCallback(registered)
    \/ LiveNext

ThrowSpec == ThrowInit /\ [][ThrowNext]_vars

\* ------------------------------------- the scan as a function of the lines
\* parse3DFaceFromLines run to its return from index idx: the index, the
\* vertex buffer and the populated marks it ends with.
RECURSIVE FaceScan(_, _, _, _)
FaceScan(ls, idx, vs, hv) ==
    IF FaceLoopEnds(ls, idx)
    THEN [index |-> idx, vertices |-> vs, hasVertex |-> hv]
    ELSE IF Stoi(Line(ls, idx)).ok
    THEN FaceScan(ls, idx + 2,
                  StoreCoordinate(vs, Stoi(Line(ls, idx)).val, Line(ls, idx + 1)),
                  MarkVertex(hv, Stoi(Line(ls, idx)).val, Line(ls, idx + 1)))
    ELSE FaceScan(ls, SkipStray(idx), vs, hv)

\* One iteration of the loop of parseFile on the cursor, the flag and the mesh.
MainStep(ls, st) ==
    IF st.i >= Len(ls) THEN st
    ELSE IF IsEntitiesStart(ls, st.i)
    THEN [st EXCEPT !.i = st.i + 4, !.inSection = TRUE]
    ELSE IF IsSectionEnd(ls, st.i)
    THEN [st EXCEPT !.i = st.i + 2, !.inSection = FALSE]
    ELSE IF IsFaceStart(ls, st.i, st.inSection)
    THEN LET r == FaceScan(ls, st.i + 2, NoVertices, NoHasVertex)
         IN  [i |-> r.index,
              inSection |-> st.inSection,
              mesh |-> IF FaceComplete(r.hasVertex)
                       THEN Append(st.mesh,
                                   Triangle(r.vertices[1], r.vertices[2],
                                            r.vertices[3]))
                       ELSE st.mesh]
    ELSE [st EXCEPT !.i = st.i + 1]

\* n iterations of the loop (an iteration at the end of the lines does nothing).
RECURSIVE RunScan(_, _, _)
RunScan(ls, st, n) ==
    IF n = 0 THEN st
    ELSE IF n = 1 THEN MainStep(ls, st)
    ELSE LET half == RunScan(ls, st, n \div 2)
         IN  IF half.i >= Len(ls) THEN half
             ELSE RunScan(ls, half, n - n \div 2)

\* The mesh parseFile builds from the lines ls: every iteration advances the
\* cursor, so Len(ls) iterations reach the end.
MeshOf(ls) ==
    RunScan(ls, [i |-> 0, inSection |-> FALSE, mesh |-> <<>>], Len(ls)).mesh

Range(s) == {s[k] : k \in DOMAIN s}

\* p <= q on progress fractions.
FractionLeq(p, q) == p[1] * q[2] <= q[1] * p[2]

\* Line k of the lines is "0" and line k + 1 is "3DFACE".
FaceMarkerAt(ls, k) ==
    k + 1 < Len(ls) /\ Line(ls, k) = S0 /\ Line(ls, k + 1) = FACE3D

\* ------------------------------- operations checked on their own inputs
\* The most code/value pairs in an entity text.
MaxPairs == 4

K23 == <<"2", "3">>
K33 == <<"3", "3">>

\* Code/value pairs of an entity text: the x pairs of the three vertices, a y
\* pair, and pairs of the fourth vertex (one with the value "0").
FacePairs ==
    {<<K10, V1>>, <<K11, V3>>, <<K12, V5>>, <<K20, V7>>,
     <<K13, V7>>, <<K23, S0>>, <<K33, V10p0>>}

\* What follows the entity: the end of the lines, or the next marker.
EntityTails == {<<>>, <<S0, ENDSEC>>}

IsFourthVertexPair(p) == Stoi(p[1]).ok /\ Stoi(p[1]).val \in {13, 23, 33}

WithoutFourthVertex(ps) == SelectSeq(ps, LAMBDA p : ~IsFourthVertexPair(p))

RECURSIVE Flatten(_)
Flatten(ps) == IF ps = <<>> THEN <<>> ELSE Head(ps) \o Flatten(Tail(ps))

\* The lines of a file with one 3DFACE entity made of the pairs ps.
FaceText(ps, tail) == Hdr \o Face(Flatten(ps)) \o tail

\* parse3DFaceFromLines as parseFile calls it on that entity: index is i + 2.
FaceCall(ps, tail) ==
    FaceScan(FaceText(ps, tail), Len(Hdr) + 2, NoVertices, NoHasVertex)

\* The most items in the text of an entity.
MaxItems == 3

\* The items of the text of an entity: pairs with the x of each vertex, a
\* pair with a malformed x, a pair whose value is "0", a line that is no
\* group code, and a group code without a value.
EntityItems ==
    {<<K10, V1>>, <<K11, V3>>, <<K12, V5>>, <<K11, JUNK>>, <<K20, S0>>,
     <<JUNK>>, <<K30>>}

\* The items of at most MaxItems in a row.
ItemRows == UNION {[1..n -> EntityItems] : n \in 0..MaxItems}

\* The coordinate codes in the order of an entity text, the numeric value
\* given to each, and the values of a coordinate: a number, something
\* malformed, or no pair at all.
K31 == <<"3", "1">>
CoordinateCodes == <<K10, K20, K30, K11, K21, K31, K12, K22, K32>>
NumericValues == <<V1, V3, V5, V7, V1p5, VNeg4, V10p0, V3, V5>>
ValueKinds == {"numeric", "malformed", "absent"}

\* The most coordinate codes of an entity whose value is no number or that
\* have no pair.
MaxFlaws == 3

\* For each coordinate code the kind of its value, with at most MaxFlaws
\* codes that are not numeric.
CodeKinds ==
    {kinds \in [1..Len(CoordinateCodes) -> ValueKinds] :
        Cardinality({k \in DOMAIN kinds : kinds[k] # "numeric"}) <= MaxFlaws}

\* The pairs of an entity in which code k has a value of the kind kinds[k].
RECURSIVE PairsOfKinds(_, _)
PairsOfKinds(kinds, k) ==
    IF k > Len(CoordinateCodes) THEN <<>>
    ELSE (IF kinds[k] = "absent" THEN <<>>
          ELSE <<CoordinateCodes[k],
                 IF kinds[k] = "numeric" THEN NumericValues[k] ELSE JUNK>>)
         \o PairsOfKinds(kinds, k + 1)

\* The pairs of a well-formed entity, one pair per code: the x of each
\* vertex and, of the y and z, one for each vertex; all values differ.
WellFormedPairs ==
    <<<<K10, V1>>, <<K11, V3>>, <<K12, V5>>,
      <<K20, V7>>, <<K31, VNeg4>>, <<K22, V1p5>>>>

\* The orders in which an entity can give some of these pairs, the three x
\* pairs among them, each pair once.
PairOrders ==
    {order \in UNION {[1..n -> 1..Len(WellFormedPairs)] :
                          n \in 3..Len(WellFormedPairs)} :
        /\ \A a, b \in DOMAIN order : order[a] = order[b] => a = b
        /\ \A x \in 1..3 : \E a \in DOMAIN order : order[a] = x}

\* The pairs of WellFormedPairs in the order given.
PairsInOrder(order) == [a \in DOMAIN order |-> WellFormedPairs[order[a]]]

\* Entities that give a coordinate code more than once: the three numeric x
\* pairs, and one or two more pairs, of any coordinate code and with a
\* numeric or a malformed value, put in before, between or after them.
BasePairs == <<<<K10, V1>>, <<K11, V3>>, <<K12, V5>>>>
RepeatValues == {V7, JUNK}
RepeatPairs ==
    {<<CoordinateCodes[k], v>> : k \in DOMAIN CoordinateCodes, v \in RepeatValues}
InsertAt(ps, a, p) == SubSeq(ps, 1, a) \o <<p>> \o SubSeq(ps, a + 1, Len(ps))
OnceRepeated ==
    {InsertAt(BasePairs, a, p) : a \in 0..Len(BasePairs), p \in RepeatPairs}
RepeatedEntities ==
    OnceRepeated
    \cup UNION {{InsertAt(ps, a, p) : a \in 0..Len(ps), p \in RepeatPairs} :
                   ps \in OnceRepeated}

\* The greatest coordinate, in absolute value, of the vectors and points.
MaxCoord == 2
Coords == (-MaxCoord)..MaxCoord
Vectors == {Point3D(x, y, z) : x, y, z \in Coords}
UnitX == Point3D(1, 0, 0)
UnitY == Point3D(0, 1, 0)
UnitZ == Point3D(0, 0, 1)

\* The most calls of expand on one box.
MaxExpands == 3

\* The points a box is expanded with: the corners of two cubes side by side,
\* and two points at the ends of the range of a double.
BoxPoints ==
    {Point3D(x, y, z) : x \in -1..1, y \in 0..1, z \in 0..1}
        \cup {Point3D(DoubleMax, DoubleLowest, 0),
              Point3D(DoubleLowest, 1, DoubleMax)}

\* The most triangles held by a mesh.
MaxTriangles == 3

\* The triangles added to a mesh: right triangles in planes across an axis
\* (areas 1/2, 2, 2 and 6) and one with its three vertices at one point.
MeshTriangles ==
    {Triangle(Origin, UnitX, UnitY),
     Triangle(Origin, Point3D(2, 0, 0), Point3D(0, 2, 0)),
     Triangle(Point3D(0, 0, 1), Point3D(0, 2, 1), Point3D(0, 0, -1)),
     Triangle(Point3D(-1, 0, 0), Point3D(-1, 3, 0), Point3D(-1, 0, 4)),
     Triangle(Point3D(1, 1, 1), Point3D(1, 1, 1), Point3D(1, 1, 1))}

\* The most files in the file system that a writer has written.
MaxWrites == 2

\* The formats, the output directories, the base names and the times of the
\* calls of a writer. Of the directories the first is there, the second is
\* missing with its parent, the third is a regular file, the fourth lies
\* below that file, the last is read-only.
Formats == {"JSON", "TEXT", "CSV"}
OutDir == << <<"out">> >>
NestedDir == << <<"new">>, <<"nested">> >>
FileAsDir == << <<"out">>, <<"file", ".txt">> >>
BelowFile == << <<"out">>, <<"file", ".txt">>, <<"sub">> >>
ReadOnlyDir == << <<"ro">> >>
OutputDirs == {OutDir, NestedDir, FileAsDir, BelowFile, ReadOnlyDir}
BaseNames == {"mesh_summary"}
Times == {"20261101_120000_000"}

\* The file system before the writer is made.
FileSystem ==
    [dirs |-> {OutDir, ReadOnlyDir}, files |-> (FileAsDir :> "content")]

\* No writer yet.
NoWriter ==
    [op |-> "writer", built |-> FALSE, format_ |-> "none",
     outputDirectory_ |-> <<>>, includeTimestamp_ |-> FALSE,
     lastOutputPath_ |-> <<>>, fs |-> FileSystem,
     call |-> [name |-> "none"], outcome |-> Done,
     asked |-> "none", returned |-> <<>>]

\* The type names given to the factory of readers.
ReaderTypes ==
    {"", "standard", "Standard", "STANDARD", "standard ", " standard",
     "standar", "standard2", "default", "basic", "detailed", "invalid_type"}

\* The capacities asked of reserve.
Capacities == {0, 2, 1000}

\* No query has been made of the mesh since it last changed.
NotAsked == [made |-> FALSE]

\* The vertices of the triangles: the points of two layers of a grid.
Corners == {Point3D(x, y, z) : x, y \in 0..MaxCoord, z \in 0..1}

\* Files to pad with white space: well-formed faces, a blank line, stray
\* lines, a section that ends before the face, no face at all.
PadFiles ==
    {SampleFile,
     Hdr \o Face(BodyBlank) \o Face(BodyQuad),
     Hdr \o Face(BodyStray) \o End,
     Hdr \o End \o Face(BodyXOnly),
     HdrOther \o Face(BodyXOnly),
     Hdr \o Face(BodyNoValue) \o Face(BodyXOnly) \o Trailer}

\* White space put before and after a line: spaces and tabs before; spaces,
\* tabs and CR after.
LeadPads == {<<>>, <<" ">>, <<"\t", " ">>}
TrailPads == {<<>>, <<"\r">>, <<" ", "\t">>, <<"\t", " ", "\r">>}

\* The file f with line k padded, every line when k = 0.
Pad(f, k, lead, trail) ==
    [m \in DOMAIN f |-> IF k = 0 \/ k = m THEN lead \o f[m] \o trail ELSE f[m]]

\* The outcome of the scan of a file: its trimmed lines, the mesh, and the
\* result of read.
ReadOutcome(raw) ==
    [lines |-> ReadLines(raw),
     mesh |-> MeshOf(ReadLines(raw)),
     result |-> ScanOutcome(MeshOf(ReadLines(raw)))]

\* The inputs of the operations.
CalcInit ==
    /\ ReaderInit
    /\ \/ \E ps \in SeqsUpTo(FacePairs, MaxPairs), tail \in EntityTails :
              calc = [op |-> "face", done |-> FALSE, pairs |-> ps,
                      tail |-> tail]
       \/ \E f \in PadFiles, lead \in LeadPads, trail \in TrailPads :
              \E k \in 0..Len(f) :
                  calc = [op |-> "pad", done |-> FALSE, file |-> f, line |-> k,
                          lead |-> lead, trail |-> trail]
       \/ \E a, b \in Vectors :
              calc = [op |-> "vector", done |-> FALSE, a |-> a, b |-> b]
       \/ \E v0, v1, v2 \in Corners :
              calc = [op |-> "triangle", done |-> FALSE,
                      t |-> Triangle(v0, v1, v2)]
       \/ calc = [op |-> "box", box |-> BoundingBox, points |-> <<>>]
       \/ calc = [op |-> "mesh", triangles |-> <<>>, capacity |-> 0,
                  adds |-> 0, asked |-> NotAsked,
                summaries |-> NotAsked]
       \/ calc = [op |-> "factory", done |-> FALSE, given |-> FALSE]
       \/ calc = NoWriter
       \/ \E items \in ItemRows, tail \in EntityTails :
              calc = [op |-> "entity", done |-> FALSE, scan |-> NotAsked,
                      text |-> FaceText(items, tail)]
       \/ \E kinds \in CodeKinds :
              calc = [op |-> "codes", done |-> FALSE, kinds |-> kinds,
                      scan |-> NotAsked,
                      text |-> Hdr \o Face(PairsOfKinds(kinds, 1)) \o End]
       \/ \E order \in PairOrders :
              calc = [op |-> "permuted", done |-> FALSE, order |-> order,
                      scan |-> NotAsked,
                      text |-> FaceText(PairsInOrder(order), End)]
       \/ \E ps \in RepeatedEntities :
              calc = [op |-> "repeated", done |-> FALSE, given |-> ps,
                      scan |-> NotAsked, text |-> FaceText(ps, End)]
       \/ \E readerType \in ReaderTypes :
              calc = [op |-> "factory", done |-> FALSE, given |-> TRUE,
                      readerType |-> readerType]

\* The files in the file system that the writer wrote.
Written(fs) == DOMAIN fs.files \ DOMAIN FileSystem.files

\* SummaryWriter::SummaryWriter: when it throws there is no writer. asked
\* keeps the format the writer was last given, returned the path that the
\* latest writeToFile returned.
NewWriter ==
    /\ calc.op = "writer"
    /\ ~calc.built
    /\ \E format \in Formats, outputDir \in OutputDirs :
           LET ensured == ensureOutputDirectoryExists(calc.fs, outputDir)
               call == [name |-> "SummaryWriter", directory |-> outputDir]
           IN  calc' = IF ensured.outcome = Done
                       THEN [calc EXCEPT !.built = TRUE,
                                         !.format_ = format,
                                         !.outputDirectory_ = outputDir,
                                         !.includeTimestamp_ = TRUE,
                                         !.lastOutputPath_ = <<>>,
                                         !.fs = ensured.fs,
                                         !.call = call,
                                         !.outcome = Done,
                                         !.asked = format]
                       ELSE [calc EXCEPT !.fs = ensured.fs,
                                         !.call = call,
                                         !.outcome = ensured.outcome]
    /\ UNCHANGED readerVars

\* SummaryWriter::setFormat
SetFormat ==
    /\ calc.op = "writer"
    /\ calc.built
    /\ \E format \in Formats :
           calc' = [calc EXCEPT !.format_ = format,
                                !.call = [name |-> "setFormat"],
                                !.outcome = Done,
                                !.asked = format]
    /\ UNCHANGED readerVars

\* SummaryWriter::setIncludeTimestamp
SetIncludeTimestamp ==
    /\ calc.op = "writer"
    /\ calc.built
    /\ \E include \in BOOLEAN :
           calc' = [calc EXCEPT !.includeTimestamp_ = include,
                                !.call = [name |-> "setIncludeTimestamp"],
                                !.outcome = Done]
    /\ UNCHANGED readerVars

\* SummaryWriter::setOutputDirectory
SetOutputDirectory ==
    /\ calc.op = "writer"
    /\ calc.built
    /\ \E directory \in OutputDirs :
           LET set == setOutputDirectory(calc.fs, directory)
           IN  calc' = [calc EXCEPT !.outputDirectory_ = directory,
                                    !.fs = set.fs,
                                    !.call = [name |-> "setOutputDirectory",
                                              directory |-> directory],
                                    !.outcome = set.outcome]
    /\ UNCHANGED readerVars

\* SummaryWriter::writeToFile
WriteToFile ==
    /\ calc.op = "writer"
    /\ calc.built
    /\ \E baseName \in BaseNames, now \in Times :
           LET wrote == writeToFile(calc.fs, calc, baseName, now)
           IN  /\ Cardinality(Written(wrote.fs)) <= MaxWrites
               /\ calc' = [calc EXCEPT
                      !.fs = wrote.fs,
                      !.lastOutputPath_ = wrote.lastOutputPath_,
                      !.call = [name |-> "writeToFile",
                                directory |-> calc.outputDirectory_,
                                baseName |-> baseName],
                      !.outcome = wrote.outcome,
                      !.returned = IF wrote.outcome.kind = "returned"
                                   THEN wrote.outcome.path
                                   ELSE calc.returned]
    /\ UNCHANGED readerVars

\* DXFReaderFactory::createReader, without and with a type name.
ApplyFactory ==
    /\ calc.op = "factory"
    /\ ~calc.done
    /\ calc' = IF calc.given
               THEN [op |-> "factory", done |-> TRUE, given |-> TRUE,
                     readerType |-> calc.readerType,
                     made |-> createReader(calc.readerType)]
               ELSE [op |-> "factory", done |-> TRUE, given |-> FALSE,
                     made |-> createReaderDefault]
    /\ UNCHANGED readerVars

\* MeshData::addTriangle on a mesh that starts as constructed; adds counts
\* the calls since the latest clear.
AddTriangle ==
    /\ calc.op = "mesh"
    /\ Len(calc.triangles) < MaxTriangles
    /\ \E triangle \in MeshTriangles :
           \E grown \in GrownCapacities(Len(calc.triangles)) :
               calc' = [op |-> "mesh",
                        triangles |-> addTriangle(calc.triangles, triangle),
                        capacity |-> IF Len(calc.triangles) < calc.capacity
                                     THEN calc.capacity ELSE grown,
                        adds |-> calc.adds + 1,
                        asked |-> NotAsked,
                summaries |-> NotAsked]
    /\ UNCHANGED readerVars

\* MeshData::clear: the storage is kept.
ClearMesh ==
    /\ calc.op = "mesh"
    /\ calc' = [op |-> "mesh", triangles |-> clear(calc.triangles),
                capacity |-> calc.capacity, adds |-> 0, asked |-> NotAsked,
                summaries |-> NotAsked]
    /\ UNCHANGED readerVars

\* MeshData::reserve
ReserveMesh ==
    /\ calc.op = "mesh"
    /\ \E n \in Capacities :
           calc' = [op |-> "mesh", triangles |-> calc.triangles,
                    capacity |-> reserve(calc.capacity, n),
                    adds |-> calc.adds, asked |-> NotAsked,
                summaries |-> NotAsked]
    /\ UNCHANGED readerVars

\* The queries of MeshData, made of the mesh as it is.
QueryMesh ==
    /\ calc.op = "mesh"
    /\ ~calc.asked.made
    /\ calc' = [calc EXCEPT !.asked =
                   [made |-> TRUE,
                    count |-> getTriangleCount(calc.triangles),
                    empty |-> MeshIsEmpty(calc.triangles),
                    box |-> getBoundingBox(calc.triangles),
                    area |-> getTotalSurfaceArea(calc.triangles)]]
    /\ UNCHANGED readerVars

\* MeshSummarizer::summarize of the mesh as it is, by a basic and by a
\* detailed summarizer.
SummarizeMesh ==
    /\ calc.op = "mesh"
    /\ ~calc.summaries.made
    /\ calc' = [calc EXCEPT !.summaries =
                   [made |-> TRUE,
                    basic |-> summarize(calc.triangles),
                    detailed |-> summarizeDetailed(calc.triangles)]]
    /\ UNCHANGED readerVars

\* BoundingBox::expand on a box that starts as constructed; the points it
\* was expanded with are kept, in order.
ExpandBox ==
    /\ calc.op = "box"
    /\ Len(calc.points) < MaxExpands
    /\ \E point \in BoxPoints :
           calc' = [op |-> "box", box |-> expand(calc.box, point),
                    points |-> Append(calc.points, point)]
    /\ UNCHANGED readerVars

\* The derived operations of a triangle.
ApplyTriangle ==
    /\ calc.op = "triangle"
    /\ ~calc.done
    /\ calc' = [op |-> "triangle", done |-> TRUE, t |-> calc.t,
                normal |-> normal(calc.t),
                area |-> area(calc.t),
                center |-> center(calc.t)]
    /\ UNCHANGED readerVars

\* The products of two vectors, and the magnitude of the first.
ApplyVector ==
    /\ calc.op = "vector"
    /\ ~calc.done
    /\ calc' = [op |-> "vector", done |-> TRUE, a |-> calc.a, b |-> calc.b,
                ab |-> cross(calc.a, calc.b),
                ba |-> cross(calc.b, calc.a),
                aa |-> dot(calc.a, calc.a),
                magnitude |-> magnitude(calc.a)]
    /\ UNCHANGED readerVars

\* The scan of a file as it is, and padded.
ApplyPad ==
    /\ calc.op = "pad"
    /\ ~calc.done
    /\ calc' = [op |-> "pad", done |-> TRUE, file |-> calc.file,
                line |-> calc.line, lead |-> calc.lead, trail |-> calc.trail,
                plain |-> ReadOutcome(calc.file),
                padded |-> ReadOutcome(Pad(calc.file, calc.line, calc.lead,
                                           calc.trail))]
    /\ UNCHANGED readerVars

\* The subroutine on the entity, and on the entity without the pairs of the
\* fourth vertex.
ApplyFace ==
    /\ calc.op = "face"
    /\ ~calc.done
    /\ calc' = [op |-> "face", done |-> TRUE, pairs |-> calc.pairs,
                tail |-> calc.tail,
                with |-> FaceCall(calc.pairs, calc.tail),
                without |-> FaceCall(WithoutFourthVertex(calc.pairs),
                                     calc.tail)]
    /\ UNCHANGED readerVars

\* parse3DFaceFromLines as parseFile calls it on the entity of the text:
\* where the index stops, the vertex buffer, and the triangle if it
\* returns true.
ApplyEntity ==
    /\ calc.op \in {"entity", "codes", "permuted", "repeated"}
    /\ ~calc.done
    /\ LET r == FaceScan(calc.text, Len(Hdr) + 2, NoVertices, NoHasVertex)
       IN  calc' = [calc EXCEPT
                       !.done = TRUE,
                       !.scan = [made |-> TRUE,
                                 index |-> r.index,
                                 vertices |-> r.vertices,
                                 returned |-> FaceComplete(r.hasVertex)]]
    /\ UNCHANGED readerVars

CalcNext ==
    \/ ApplyFace
    \/ ApplyEntity
    \/ ApplyPad
    \/ ApplyVector
    \/ ApplyTriangle
    \/ ExpandBox
    \/ AddTriangle
    \/ ClearMesh
    \/ ReserveMesh
    \/ QueryMesh
    \/ SummarizeMesh
    \/ ApplyFactory
    \/ NewWriter
    \/ SetFormat
    \/ SetIncludeTimestamp
    \/ SetOutputDirectory
    \/ WriteToFile

CalcSpec == CalcInit /\ [][CalcNext]_vars

\* =========================================================== claims
\* C1: read never returns an empty mesh.  When a read has returned, a returned
\* mesh holds at least one triangle, and a scan that ended with no triangle
\* ended in the failure NoEntitiesFound.
C1_NeverEmptyMesh ==
    pc = "done" =>
        /\ (result = "mesh" => Len(meshData) >= 1)
        /\ (pathKind = "regular" /\ meshData = <<>>
                => result = "NoEntitiesFound")

\* A read of a file whose only 3DFACE is malformed has failed.
C1_Witness ==
    /\ pc = "done"
    /\ result = "NoEntitiesFound"
    /\ lines = Hdr \o Face(BodyMissing) \o Trailer

\* C2: a path that names nothing fails with FileNotFound and a path that names
\* a directory with NotARegularFile, in both cases before any parsing: no line
\* is read, the callback receives nothing and no mesh is produced.
C2_PathChecksBeforeParsing ==
    /\ pathKind = "missing" => pc = "done" /\ result = "FileNotFound"
    /\ pathKind = "directory" => pc = "done" /\ result = "NotARegularFile"
    /\ pathKind \in {"missing", "directory"} =>
           lines = <<>> /\ progressValues = <<>> /\ meshData = <<>>

\* A reader with a callback registered has failed on a directory.
C2_Witness ==
    pc = "done" /\ pathKind = "directory" /\ progressCallback_

\* C3: a 0/3DFACE marker met while the flag is false adds no triangle and does
\* not count (the cursor just moves on by one line), and every triangle is
\* added, and counted, at the return of the subroutine entered on a 0/3DFACE
\* marker (still at the cursor) with the flag true; the flag does not change
\* while the subroutine runs.
C3_FaceOutsideSectionIgnored ==
    [][/\ (pc = "scan" /\ FaceMarkerAt(lines, i) /\ ~inEntitiesSection)
              => /\ meshData' = meshData
                 /\ lastEntityCount_' = lastEntityCount_
                 /\ pc' = "scan"
                 /\ i' = i + 1
       /\ (Len(meshData') > Len(meshData)
           \/ (pc # "idle" /\ lastEntityCount_' # lastEntityCount_))
              => /\ pc = "face"
                 /\ inEntitiesSection
                 /\ FaceMarkerAt(lines, i)
       /\ pc = "face" => inEntitiesSection /\ inEntitiesSection'
      ]_vars

\* The cursor is on a 0/3DFACE marker after the section was closed.
C3_Witness ==
    /\ pc = "scan"
    /\ ~inEntitiesSection
    /\ FaceMarkerAt(lines, i)
    /\ lines = Hdr \o End \o Face(BodyXOnly)

\* C4: a triangle is added only at the return of the subroutine with all three
\* vertex slots marked, and it is the buffered triangle; a return with a slot
\* unmarked appends nothing, counts nothing, reports nothing, raises no error
\* and leaves the scan running at the index the subroutine stopped at.
C4_NoPartialTriangle ==
    [][/\ Len(meshData') > Len(meshData)
              => /\ pc = "face"
                 /\ hasVertex = <<TRUE, TRUE, TRUE>>
                 /\ meshData' = Append(meshData, vertices)
       /\ (pc = "face" /\ pc' # "face" /\ hasVertex # <<TRUE, TRUE, TRUE>>)
              => /\ meshData' = meshData
                 /\ lastEntityCount_' = lastEntityCount_
                 /\ progressValues' = progressValues
                 /\ result' = "none"
                 /\ pc' = "scan"
                 /\ i' = index
      ]_vars

\* A 3DFACE with only two vertices has just been dropped inside the section.
C4_Witness ==
    /\ pc = "scan"
    /\ lines = Hdr \o Face(BodyMissing) \o Face(BodyXOnly)
    /\ i = 10
    /\ meshData = <<>>
    /\ lastEntityCount_ = 0

\* The lines from position p to the end of the entity (a "0" line in code
\* position, or the end of the lines) are aligned pairs: an integer code line
\* and its value line, numeric where the code is 10, 11 or 12.
RECURSIVE AlignedPairs(_, _)
AlignedPairs(ls, p) ==
    IF p >= Len(ls) THEN TRUE
    ELSE IF Line(ls, p) = S0 THEN TRUE
    ELSE /\ Stoi(Line(ls, p)).ok
         /\ p + 1 < Len(ls)
         /\ (Stoi(Line(ls, p)).val \in 10..12 => Stod(Line(ls, p + 1)).ok)
         /\ AlignedPairs(ls, p + 2)

\* The 3DFACE entity whose marker is at k is well formed: aligned pairs, with
\* a numeric value for each of the codes 10, 11 and 12.
WellFormedFaceAt(ls, k) ==
    /\ FaceMarkerAt(ls, k)
    /\ AlignedPairs(ls, k + 2)
    /\ FaceScan(ls, k + 2, NoVertices, NoHasVertex).hasVertex
           = <<TRUE, TRUE, TRUE>>

\* The triangle of the coordinates of the entity whose marker is at k.
OwnTriangle(ls, k) == FaceScan(ls, k + 2, NoVertices, NoHasVertex).vertices

\* The position of the first 0/3DFACE marker after position j (Len(ls) if none).
NextFaceMarker(ls, j) ==
    IF \E k \in (j + 1)..(Len(ls) - 1) : FaceMarkerAt(ls, k)
    THEN CHOOSE k \in (j + 1)..(Len(ls) - 1) :
             /\ FaceMarkerAt(ls, k)
             /\ \A m \in (j + 1)..(k - 1) : ~FaceMarkerAt(ls, m)
    ELSE Len(ls)

\* Position k of the text lies after an ENTITIES section start with no
\* 0/ENDSEC between the two.
InEntitiesText(ls, k) ==
    \E h \in 0..(k - 1) :
        IsEntitiesStart(ls, h) /\ \A m \in h..(k - 1) : ~IsSectionEnd(ls, m)

\* C5 (as claimed): once a read has returned, every well-formed 3DFACE entity
\* that follows a malformed 3DFACE entity in the same ENTITIES section has
\* its own triangle, with exactly its own coordinates, in the mesh.
C5_MalformedFaceOnlyLosesItself ==
    (pc = "done" /\ pathKind = "regular") =>
        \A j \in 0..(Len(lines) - 1) :
            (/\ FaceMarkerAt(lines, j)
             /\ InEntitiesText(lines, j)
             /\ ~WellFormedFaceAt(lines, j)
             /\ NextFaceMarker(lines, j) < Len(lines)
             /\ InEntitiesText(lines, NextFaceMarker(lines, j))
             /\ WellFormedFaceAt(lines, NextFaceMarker(lines, j)))
                => OwnTriangle(lines, NextFaceMarker(lines, j))
                       \in Range(meshData)

\* C6: while a file is scanned, and when the read of a file has returned or
\* failed with NoEntitiesFound, the entity counter is the number of triangles
\* in the mesh.
C6_CountIsTriangleCount ==
    (pc \in {"scan", "face"} \/ (pc = "done" /\ pathKind = "regular"))
        => lastEntityCount_ = Len(meshData)

\* A read of a file with two well-formed faces has returned.
C6_Witness ==
    /\ pc = "done"
    /\ result = "mesh"
    /\ lines = SampleFile
    /\ Len(meshData) = 2
    /\ lastEntityCount_ = 2

\* C7: every scan starts from a count of 0 and an empty mesh, and when the
\* read of a file is over the mesh and the count are those the lines of that
\* file yield on their own, whatever the reader's count was before the read.
C7_ReaderReusable ==
    /\ (pc = "scan" /\ i = 0) => lastEntityCount_ = 0 /\ meshData = <<>>
    /\ (pc = "done" /\ pathKind = "regular")
           => /\ meshData = MeshOf(lines)
              /\ lastEntityCount_ = Len(MeshOf(lines))

\* A reader whose count was not 0 has read a file with one face.
C7_Witness ==
    /\ pc = "done"
    /\ hadCount
    /\ result = "mesh"
    /\ lastEntityCount_ = 1
    /\ Len(meshData) = 1

\* C8: when the scan of a file has run to the end of the lines and a callback
\* is registered, the last value the callback received is exactly 1.0, also
\* when the read failed with NoEntitiesFound; nothing is reported after it.
C8_FinalReportIsOne ==
    (pc = "done" /\ pathKind = "regular" /\ progressCallback_)
        => /\ progressValues # <<>>
           /\ progressValues[Len(progressValues)] = <<1, 1>>

\* A read with a callback has failed with NoEntitiesFound on a file that has
\* lines; the callback received 1.0 and nothing else.
C8_Witness ==
    /\ pc = "done"
    /\ progressCallback_
    /\ result = "NoEntitiesFound"
    /\ lines # <<>>
    /\ progressValues = << <<1, 1>> >>

\* C9: the values the callback received during a read never decrease.
C9_ProgressMonotonic ==
    \A a, b \in DOMAIN progressValues :
        a < b => FractionLeq(progressValues[a], progressValues[b])

\* The callback received two every-100th reports, then 1.0, each greater than
\* the one before.
C9_Witness ==
    /\ pc = "done"
    /\ Len(progressValues) = 3
    /\ ~FractionLeq(progressValues[2], progressValues[1])
    /\ ~FractionLeq(progressValues[3], progressValues[2])

\* C10: every value the callback received lies in [0.0, 1.0].
C10_ProgressInUnitRange ==
    \A a \in DOMAIN progressValues :
        /\ progressValues[a][2] > 0
        /\ 0 <= progressValues[a][1]
        /\ progressValues[a][1] <= progressValues[a][2]

\* The callback received an every-100th report strictly between 0.0 and 1.0.
C10_Witness ==
    /\ progressValues # <<>>
    /\ 0 < progressValues[1][1]
    /\ progressValues[1][1] < progressValues[1][2]

\* C11 (as claimed): when the scan of a file has run to the end with a
\* callback registered, the callback was invoked floor(N / 100) + 1 times,
\* N the number of triangles emitted.
C11_ReportCountAsClaimed ==
    (pc = "done" /\ pathKind = "regular" /\ progressCallback_)
        => Len(progressValues) = Len(meshData) \div ProgressEvery + 1

\* The number of every-100th reports made once count entities are parsed.
ReportsDue(count, size) == IF size > 0 THEN count \div ProgressEvery ELSE 0

\* C11 (amended): with a callback registered and a file size that is not 0,
\* a non-final report is made exactly after each parsed entity whose running
\* count is a multiple of 100, with the value (cursor past the entity) /
\* (line count), and no step but that one and the final report adds a value;
\* the callback is invoked floor(N / 100) + 1 times in all.  When the file
\* size is 0 only the final report is made.
C11_ReportEveryHundredth ==
    /\ [](progressCallback_ =>
            /\ pc \in {"scan", "face"}
                   => Len(progressValues) = ReportsDue(lastEntityCount_, fileSize)
            /\ (pc = "done" /\ pathKind = "regular")
                   => Len(progressValues)
                          = ReportsDue(Len(meshData), fileSize) + 1)
    /\ [][(progressCallback_ /\ pc = "face" /\ pc' = "scan") =>
              progressValues' =
                  IF /\ Len(meshData') = Len(meshData) + 1
                     /\ lastEntityCount_' % ProgressEvery = 0
                     /\ fileSize > 0
                  THEN Append(progressValues, <<i', Len(lines)>>)
                  ELSE progressValues]_vars
    /\ [][(pc \in {"scan", "face"} /\ pc' \in {"scan", "face"}
              /\ ~(pc = "face" /\ pc' = "scan"))
              => progressValues' = progressValues]_vars

\* A read of the 200-face file, its size not 0, has returned: two every-100th
\* reports and the final one.
C11_Witness ==
    /\ pc = "done"
    /\ progressCallback_
    /\ fileSize > 0
    /\ Len(meshData) = 2 * ProgressEvery
    /\ progressValues = << <<804, Len(lines)>>, <<1604, Len(lines)>>, <<1, 1>> >>

\* C12: the outcome of a read is the one the path and the lines of the file
\* determine on their own, with or without a callback registered: the failure
\* of the path checks, or the failure or the triangles and the count of the
\* scan of the lines; in particular a read without a callback never ends in
\* a failure raised by a report.
C12_CallbackIsPureObserver ==
    pc = "done" =>
        IF pathKind = "regular"
        THEN /\ result = ScanOutcome(MeshOf(lines))
             /\ meshData = MeshOf(lines)
             /\ lastEntityCount_ = Len(meshData)
        ELSE result = OpenOutcome(pathKind)

\* A read without a callback of the 200-face file, where two every-100th
\* reports and the final report were due, has returned the mesh.
C12_Witness ==
    /\ pc = "done"
    /\ ~progressCallback_
    /\ fileSize > 0
    /\ result = "mesh"
    /\ Len(meshData) = 2 * ProgressEvery
    /\ progressValues = <<>>

\* C13: when a read of a file is over, its outcome is that of the latest
\* earlier read of a file with the same lines, whatever the reader read in
\* between and whether a callback was registered: the same result, the same
\* triangle sequence, hence the same triangle count and bounding box (and
\* surface area, a function of the sequence), and the same entity count.
C13_SameFileSameOutcome ==
    (pc = "done" /\ pathKind = "regular" /\ earlier.lines = lines
        /\ earlier # NoEarlier)
        => /\ result = earlier.result
           /\ meshData = earlier.mesh
           /\ Len(meshData) = Len(earlier.mesh)
           /\ lastEntityCount_ = earlier.count
           /\ getBoundingBox(meshData) = getBoundingBox(earlier.mesh)

\* The two-face file has been read a second time, by a reader whose count
\* was not 0, and gave the two triangles it gave before.
C13_Witness ==
    /\ pc = "done"
    /\ hadCount
    /\ lines = SampleFile
    /\ earlier.lines = lines
    /\ earlier.result = "mesh"
    /\ result = "mesh"
    /\ meshData = earlier.mesh
    /\ Len(meshData) = 2

\* The lines from position k on start with the lines of the sequence t.
StartsWith(ls, k, t) ==
    /\ k + Len(t) <= Len(ls)
    /\ \A m \in 1..Len(t) : ls[k + m] = t[m]

\* What a step of the scan or of the subroutine does to the section flag.
SectionFlagStep ==
    pc \in {"scan", "face"} =>
        IF pc = "scan" /\ StartsWith(lines, i, <<S0, SECTION, S2, ENTITIES>>)
        THEN inEntitiesSection' /\ i' = i + 4 /\ pc' = "scan"
        ELSE IF pc = "scan" /\ StartsWith(lines, i, <<S0, ENDSEC>>)
        THEN (~inEntitiesSection') /\ i' = i + 2 /\ pc' = "scan"
        ELSE /\ inEntitiesSection' = inEntitiesSection
             /\ (pc = "scan" /\ StartsWith(lines, i, <<S0, SECTION>>))
                    => (i' = i + 1 /\ pc' = "scan")

\* C14: the section flag is false when a scan starts; a step of the scan with
\* the cursor on "0", "SECTION", "2", "ENTITIES" sets it and moves the cursor
\* by 4, a step with the cursor on "0", "ENDSEC" clears it and moves the
\* cursor by 2, and every other step of the scan and of the subroutine
\* leaves it as it is; on a 0/SECTION marker of another section the cursor
\* moves by 1.
C14_SectionFlagChanges ==
    /\ []((pc = "scan" /\ i = 0) => ~inEntitiesSection)
    /\ [][SectionFlagStep]_vars

\* The flag, set by the ENTITIES header, is still set after a dropped 3DFACE,
\* with the cursor on the 0/ENDSEC that will clear it.
C14_Witness ==
    /\ pc = "scan"
    /\ lines = Hdr \o Face(BodyMissing) \o End
    /\ i = 10
    /\ inEntitiesSection
    /\ meshData = <<>>

\* C15: the subroutine gives, on an entity with pairs of the codes 13, 23 and
\* 33, the vertices, the populated marks (so the success or failure) and the
\* cursor position, counted from the end of the lines, that it gives on the
\* entity with those pairs removed.
C15_FourthVertexIgnored ==
    (calc.op = "face" /\ calc.done) =>
        /\ calc.with.vertices = calc.without.vertices
        /\ calc.with.hasVertex = calc.without.hasVertex
        /\ FaceComplete(calc.with.hasVertex)
               = FaceComplete(calc.without.hasVertex)
        /\ Len(FaceText(calc.pairs, calc.tail)) - calc.with.index
               = Len(FaceText(WithoutFourthVertex(calc.pairs), calc.tail))
                     - calc.without.index

\* The subroutine has succeeded on an entity with a pair of the fourth vertex,
\* its value "0", between those of the three vertices.
C15_Witness ==
    /\ calc.op = "face"
    /\ calc.done
    /\ calc.pairs = << <<K10, V1>>, <<K23, S0>>, <<K11, V3>>, <<K12, V5>> >>
    /\ calc.tail = <<S0, ENDSEC>>
    /\ FaceComplete(calc.with.hasVertex)
    /\ calc.with.index = Len(Hdr) + 2 + 8

\* C16: a file whose lines are padded with spaces or tabs before, and spaces,
\* tabs or CR after, one line or all of them, is read as the file without
\* the padding: the same trimmed lines, the same triangles, the same result.
C16_PaddingIgnored ==
    (calc.op = "pad" /\ calc.done) =>
        /\ calc.padded.lines = calc.plain.lines
        /\ calc.padded.mesh = calc.plain.mesh
        /\ calc.padded.result = calc.plain.result

\* The two-face file with every line indented and ended by blanks and a CR
\* has given its two triangles.
C16_Witness ==
    /\ calc.op = "pad"
    /\ calc.done
    /\ calc.file = SampleFile
    /\ calc.line = 0
    /\ calc.lead = <<"\t", " ">>
    /\ calc.trail = <<"\t", " ", "\r">>
    /\ calc.padded.result = "mesh"
    /\ Len(calc.padded.mesh) = 2

\* The componentwise negation of a vector.
Negated(v) == Point3D(-v.x, -v.y, -v.z)

Degenerate(t) ==
    LET e1 == [x |-> t[2].x - t[1].x, y |-> t[2].y - t[1].y,
               z |-> t[2].z - t[1].z]
        e2 == [x |-> t[3].x - t[1].x, y |-> t[3].y - t[1].y,
               z |-> t[3].z - t[1].z]
        Factors == (-(MaxCoord + 1))..(MaxCoord + 1)
    IN  \E p, q \in Factors :
            /\ p # 0 \/ q # 0
            /\ p * e1.x = q * e2.x
            /\ p * e1.y = q * e2.y
            /\ p * e1.z = q * e2.z

C19_EmptyThenSinglePoint ==
    calc.op = "box" =>
        /\ Len(calc.points) = 0 => BoxIsEmpty(calc.box)
        /\ Len(calc.points) = 1 =>
               /\ calc.box.min = calc.points[1]
               /\ calc.box.max = calc.points[1]
               /\ ~BoxIsEmpty(calc.box)

\* A box expanded once, with a point that has the greatest and the least
\* value of a double among its coordinates.
C19_Witness ==
    /\ calc.op = "box"
    /\ calc.points = <<Point3D(DoubleMax, DoubleLowest, 0)>>
    /\ calc.box.min = Point3D(DoubleMax, DoubleLowest, 0)
    /\ ~BoxIsEmpty(calc.box)

\* The points of a sequence, as a set.
PointsOf(points) == {points[k] : k \in 1..Len(points)}

\* The point lies in the box, its faces included.
Inside(box, p) ==
    /\ box.min.x <= p.x /\ p.x <= box.max.x
    /\ box.min.y <= p.y /\ p.y <= box.max.y
    /\ box.min.z <= p.z /\ p.z <= box.max.z

\* m is the least, or the greatest, member of the set of numbers S.
IsLeast(m, S) == m \in S /\ \A n \in S : m <= n
IsGreatest(m, S) == m \in S /\ \A n \in S : n <= m

\* The sequence in the order given by a permutation f of its positions.
Reordered(points, f) == [k \in 1..Len(points) |-> points[f[k]]]

\* C20: after one or more calls of expand, min and max are the componentwise
\* least and greatest coordinates of the points expanded with; min <= max in
\* every component; every such point is inside the box; the same calls in
\* any other order give the same box; and expand with a point that is
\* already inside changes nothing.
C20_BoxIsComponentwiseHull ==
    (calc.op = "box" /\ Len(calc.points) > 0) =>
        LET box == calc.box
            P == PointsOf(calc.points)
        IN  /\ IsLeast(box.min.x, {p.x : p \in P})
            /\ IsLeast(box.min.y, {p.y : p \in P})
            /\ IsLeast(box.min.z, {p.z : p \in P})
            /\ IsGreatest(box.max.x, {p.x : p \in P})
            /\ IsGreatest(box.max.y, {p.y : p \in P})
            /\ IsGreatest(box.max.z, {p.z : p \in P})
            /\ box.min.x <= box.max.x
            /\ box.min.y <= box.max.y
            /\ box.min.z <= box.max.z
            /\ \A p \in P : Inside(box, p)
            /\ \A f \in Permutations(1..Len(calc.points)) :
                   ExpandAll(BoundingBox, Reordered(calc.points, f)) = box
            /\ \A q \in BoxPoints : Inside(box, q) => expand(box, q) = box

\* A box expanded with three points in an order where the last one neither
\* is the least nor the greatest in x.
C20_Witness ==
    /\ calc.op = "box"
    /\ calc.points = <<Point3D(1, 0, 1), Point3D(-1, 1, 0), Point3D(0, 1, 1)>>
    /\ calc.box.min = Point3D(-1, 0, 0)
    /\ calc.box.max = Point3D(1, 1, 1)

\* The vertices of the triangles of a mesh, as a set.
VertexSet(triangles) ==
    {triangles[k][j] : k \in 1..Len(triangles), j \in 1..3}

\* C21: the bounding box of a mesh holds every vertex of every triangle,
\* each of its six faces passes through some vertex, and the box of a mesh
\* with no triangles is empty.
C21_MeshBoxIsUnionOfVertices ==
    (calc.op = "mesh" /\ calc.asked.made) =>
        LET box == calc.asked.box
            V == VertexSet(calc.triangles)
        IN  /\ calc.triangles = <<>> => BoxIsEmpty(box)
            /\ calc.triangles # <<>> =>
                   /\ \A v \in V : Inside(box, v)
                   /\ \E v \in V : v.x = box.min.x
                   /\ \E v \in V : v.y = box.min.y
                   /\ \E v \in V : v.z = box.min.z
                   /\ \E v \in V : v.x = box.max.x
                   /\ \E v \in V : v.y = box.max.y
                   /\ \E v \in V : v.z = box.max.z

\* The box of a mesh of two triangles, neither of which spans it alone.
C21_Witness ==
    /\ calc.op = "mesh"
    /\ calc.asked.made
    /\ calc.triangles =
           <<Triangle(Origin, Point3D(2, 0, 0), Point3D(0, 2, 0)),
             Triangle(Point3D(-1, 0, 0), Point3D(-1, 3, 0), Point3D(-1, 0, 4))>>
    /\ calc.asked.box.min = Point3D(-1, 0, 0)
    /\ calc.asked.box.max = Point3D(2, 3, 4)

\* A step of reserve (the capacity changes, no triangle is added and the
\* mesh is not cleared) leaves the triangles as they are.
ReserveStep ==
    (calc.op = "mesh" /\ calc'.op = "mesh"
         /\ calc'.capacity # calc.capacity /\ calc'.adds = calc.adds)
        => calc'.triangles = calc.triangles

\* C22: the count of triangles is the number of addTriangle calls since the
\* latest clear, or since construction; the mesh is empty exactly when that
\* number is 0; reserve changes neither the count nor the triangles.
C22_CountIsAddsSinceClear ==
    /\ []((calc.op = "mesh" /\ calc.asked.made) =>
              /\ calc.asked.count = calc.adds
              /\ calc.asked.empty <=> (calc.adds = 0))
    /\ [][ReserveStep]_vars

\* A mesh asked for its count after a reserve, a clear and two additions;
\* the triangle that clear removed is not one of the two.
C22_Witness ==
    /\ calc.op = "mesh"
    /\ calc.asked.made
    /\ calc.capacity = 1000
    /\ calc.adds = 2
    /\ calc.asked.count = 2
    /\ ~calc.asked.empty

\* C23: createReader with a type name gives a reader when the name is
\* "standard" or the empty string and fails with DXFReaderException for
\* every other name; createReader without a name always gives a reader.
C23_FactoryAcceptsStandardOrEmpty ==
    (calc.op = "factory" /\ calc.done) =>
        /\ calc.made.kind \in {"reader", "DXFReaderException"}
        /\ ~calc.given => calc.made.kind = "reader"
        /\ calc.given =>
               (calc.made.kind = "reader"
                    <=> calc.readerType \in {"standard", ""})

\* A name that differs from "standard" only in its first letter's case is
\* refused.
C23_Witness ==
    /\ calc.op = "factory"
    /\ calc.done
    /\ calc.given
    /\ calc.readerType = "Standard"
    /\ calc.made.kind = "DXFReaderException"

\* The figures of a summary that every summarizer fills in.
Figures(summary) ==
    <<summary.triangleCount, summary.totalSurfaceArea, summary.boundingBox,
      summary.centroid>>

\* C24: the basic and the detailed summary of a mesh have the same count,
\* area, bounding box and centroid, each the answer of the mesh itself; for
\* a mesh with triangles the detailed summary has more custom fields than
\* the basic one: every basic field, with its value, and volume_estimate,
\* min_triangle_area and max_triangle_area besides.
C24_DetailedExtendsBasic ==
    (calc.op = "mesh" /\ calc.summaries.made /\ calc.asked.made) =>
        LET basic == calc.summaries.basic
            detailed == calc.summaries.detailed
        IN  /\ Figures(basic) = Figures(detailed)
            /\ basic.triangleCount = calc.asked.count
            /\ basic.totalSurfaceArea = calc.asked.area
            /\ basic.boundingBox = calc.asked.box
            /\ basic.centroid = calculateCentroid(calc.triangles)
            /\ calc.triangles # <<>> =>
                   /\ Cardinality(DOMAIN detailed.customFields)
                          > Cardinality(DOMAIN basic.customFields)
                   /\ \A k \in DOMAIN basic.customFields :
                          /\ k \in DOMAIN detailed.customFields
                          /\ detailed.customFields[k] = basic.customFields[k]
                   /\ {"volume_estimate", "min_triangle_area",
                       "max_triangle_area"}
                          \subseteq DOMAIN detailed.customFields
                              \ DOMAIN basic.customFields

\* The two summaries of a mesh of two triangles of areas 1/2 and 6: 2 and
\* 6 basic fields more in the detailed one, the centroid weighted by area.
C24_Witness ==
    /\ calc.op = "mesh"
    /\ calc.summaries.made
    /\ calc.asked.made
    /\ calc.triangles =
           <<Triangle(Origin, UnitX, UnitY),
             Triangle(Point3D(-1, 0, 0), Point3D(-1, 3, 0), Point3D(-1, 0, 4))>>
    /\ calc.summaries.basic.totalSurfaceArea = <<13, 2>>
    /\ Cardinality(DOMAIN calc.summaries.basic.customFields) = 6
    /\ Cardinality(DOMAIN calc.summaries.detailed.customFields) = 16
    /\ calc.summaries.detailed.customFields["min_triangle_area"] = 500000
    /\ calc.summaries.detailed.customFields["max_triangle_area"] = 6000000

\* C25: either summary of a mesh with no triangles has the count 0, the
\* area 0, an empty bounding box, the centroid at the origin and no custom
\* field.
C25_EmptyMeshSummary ==
    (calc.op = "mesh" /\ calc.summaries.made /\ calc.triangles = <<>>) =>
        \A summary \in {calc.summaries.basic, calc.summaries.detailed} :
            /\ summary.triangleCount = 0
            /\ summary.totalSurfaceArea = FracOf(0)
            /\ BoxIsEmpty(summary.boundingBox)
            /\ summary.centroid = FracPoint(Origin)
            /\ DOMAIN summary.customFields = {}

\* The summaries of a mesh emptied by clear after it had triangles.
C25_Witness ==
    /\ calc.op = "mesh"
    /\ calc.summaries.made
    /\ calc.triangles = <<>>
    /\ calc.capacity > 0
    /\ calc.summaries.detailed.triangleCount = 0
    /\ DOMAIN calc.summaries.detailed.customFields = {}

\* The extension that stands for a format, and the extension of a path:
\* the last part of its last name.
ExtensionFor(format) ==
    CASE format = "JSON" -> ".json"
      [] format = "TEXT" -> ".txt"
      [] format = "CSV" -> ".csv"
ExtensionOf(path) == path[Len(path)][Len(path[Len(path)])]

\* A call of writeToFile that returns: the file it names is in the file
\* system with the content of the format last given to the writer, and has
\* that format's extension; without timestamps its name is the base name and
\* the extension; lastOutputPath_ is the path returned.
WriteStep ==
    (calc.op = "writer" /\ calc'.op = "writer"
         /\ calc'.call.name = "writeToFile"
         /\ calc'.outcome.kind = "returned") =>
        LET path == calc'.outcome.path
        IN  /\ ExtensionOf(path) = ExtensionFor(calc.asked)
            /\ \E p \in Written(calc'.fs) :
                   absolute(p) = path /\ calc'.fs.files[p] = calc.asked
            /\ ~calc.includeTimestamp_ =>
                   path[Len(path)]
                       = <<calc'.call.baseName, ExtensionFor(calc.asked)>>
            /\ calc'.lastOutputPath_ = path

\* C26: every file a writer has written has the extension of the format in
\* force when it was written (.json, .txt, .csv for JSON, TEXT, CSV, as
\* given last by setFormat or else by the constructor); with timestamps off
\* its name is the base name and the extension; getLastOutputPath is the
\* path that the latest writeToFile returned.
C26_FormatInForceNamesTheFile ==
    /\ [](calc.op = "writer" =>
              /\ calc.lastOutputPath_ = calc.returned
              /\ \A p \in Written(calc.fs) :
                     ExtensionOf(p) = ExtensionFor(calc.fs.files[p]))
    /\ [][WriteStep]_vars

\* A writer that wrote JSON, was set to TEXT and wrote again, under the
\* same base name and without timestamps.
C26_Witness ==
    /\ calc.op = "writer"
    /\ calc.built
    /\ calc.asked = "TEXT"
    /\ Written(calc.fs) = {OutDir \o << <<"mesh_summary", ".json">> >>,
                           OutDir \o << <<"mesh_summary", ".txt">> >>}
    /\ calc.lastOutputPath_
           = absolute(OutDir \o << <<"mesh_summary", ".txt">> >>)
    /\ calc.outcome.kind = "returned"

\* A call that uses the output path: the constructor, setOutputDirectory
\* or writeToFile.
UsesOutputPath ==
    /\ calc.op = "writer"
    /\ calc'.op = "writer"
    /\ calc'.call.name \in {"SummaryWriter", "setOutputDirectory",
                            "writeToFile"}

\* The call failed with SummaryWriterException, wrote no file, and if it
\* was the constructor, made no writer.
Refused ==
    /\ calc'.outcome.kind = "SummaryWriterException"
    /\ calc'.fs.files = calc.fs.files
    /\ calc'.call.name = "SummaryWriter" => ~calc'.built

\* A call with an output path that is there and is not a directory is
\* refused.
NonDirectoryRefused ==
    (UsesOutputPath /\ exists(calc.fs, calc'.call.directory)
         /\ ~is_directory(calc.fs, calc'.call.directory))
        => (Refused /\ calc'.fs = calc.fs)

\* The directory cannot be made: a name on the way to it is a regular file,
\* or the directory in which it would be made is read-only.
Blocked(fs, directory) ==
    \E k \in 1..Len(directory) :
        \/ SubSeq(directory, 1, k) \in DOMAIN fs.files
        \/ /\ SubSeq(directory, 1, k) \notin fs.dirs
           /\ SubSeq(directory, 1, k - 1) \in ReadOnlyDirectories

\* A call with a missing output path makes the directory and those above.
MissingCreated ==
    (UsesOutputPath /\ ~exists(calc.fs, calc'.call.directory)) =>
        \A k \in 1..Len(calc'.call.directory) :
            SubSeq(calc'.call.directory, 1, k) \in calc'.fs.dirs

\* A call with a missing output path makes the directory and those above,
\* unless that cannot be done: then the call is refused.
MissingCreatedOrRefused ==
    (UsesOutputPath /\ ~exists(calc.fs, calc'.call.directory)) =>
        IF Blocked(calc.fs, calc'.call.directory)
        THEN Refused /\ calc'.fs = calc.fs
        ELSE \A k \in 1..Len(calc'.call.directory) :
                 SubSeq(calc'.call.directory, 1, k) \in calc'.fs.dirs

\* C27 as claimed: an output path that is not a directory is refused, and
\* a missing one is always created.
C27_MissingAlwaysCreated ==
    [][NonDirectoryRefused /\ MissingCreated]_vars

\* C27: the constructor, setOutputDirectory and writeToFile fail with
\* SummaryWriterException and write no file when the output path is there
\* and is not a directory; a missing directory is created, nested ones
\* included, unless a regular file or a read-only directory is in the way,
\* and then the call fails with SummaryWriterException too.
C27_NonDirectoryRefused ==
    [][NonDirectoryRefused /\ MissingCreatedOrRefused]_vars

\* A writer made with a nested directory that was missing, then set to a
\* path that is a regular file, then asked to write: nothing is written.
C27_Witness ==
    /\ calc.op = "writer"
    /\ calc.built
    /\ NestedDir \in calc.fs.dirs
    /\ calc.outputDirectory_ = FileAsDir
    /\ calc.call.name = "writeToFile"
    /\ calc.outcome.kind = "SummaryWriterException"
    /\ Written(calc.fs) = {}

\* The subroutine has returned on the text of an entity.
Scanned == calc.op \in {"entity", "codes"} /\ calc.done

OnMarker(ls, idx) == idx < Len(ls) /\ Line(ls, idx) = S0

\* The last line is an integer group code: no value line follows it.
OnDanglingCode(ls, idx) ==
    /\ idx = Len(ls) - 1
    /\ Line(ls, idx) # S0
    /\ Stoi(Line(ls, idx)).ok

CoordinateOf(vs, k) ==
    LET v == vs[((k - 1) \div 3) + 1]
    IN  CASE (k - 1) % 3 = 0 -> v.x
          [] (k - 1) % 3 = 1 -> v.y
          [] OTHER -> v.z

CodesOfKind(kind) == {k \in 1..Len(CoordinateCodes) : calc.kinds[k] = kind}

\* C29 (as claimed): an entity that has pairs for the x, y and z codes of all
\* three vertices, one of them with a value that is no number, still yields
\* a triangle, and the coordinate of the malformed value is 0.0 in it.
C29_MalformedValueIsZeroNeverDrops ==
    (/\ Scanned
     /\ calc.op = "codes"
     /\ CodesOfKind("absent") = {}
     /\ Cardinality(CodesOfKind("malformed")) = 1)
        => /\ calc.scan.returned
           /\ \A k \in CodesOfKind("malformed") :
                  CoordinateOf(calc.scan.vertices, k) = 0

\* The code/value pairs that the loop of the subroutine reads from idx on.
RECURSIVE PairsRead(_, _)
PairsRead(ls, idx) ==
    IF idx >= Len(ls) \/ Line(ls, idx) = S0 THEN {}
    ELSE IF ~Stoi(Line(ls, idx)).ok THEN PairsRead(ls, idx + 1)
    ELSE IF idx + 1 >= Len(ls) THEN {}
    ELSE {<<Stoi(Line(ls, idx)).val, Line(ls, idx + 1)>>}
             \cup PairsRead(ls, idx + 2)

EntityPairs == PairsRead(calc.text, Len(Hdr) + 2)

\* The codes of CoordinateCodes as integers, and those of x, and of y and z.
CodeNumber(k) == 10 * (((k - 1) % 3) + 1) + ((k - 1) \div 3)
XCodes == {k \in 1..Len(CoordinateCodes) : (k - 1) % 3 = 0}
YZCodes == (1..Len(CoordinateCodes)) \ XCodes

\* C30: the face-parsing subroutine succeeds exactly when, for each vertex
\* index k in 0..2, a pair with code 10+k and a numeric value was read in
\* the entity; what the entity has for the y and z codes (a number,
\* something malformed, or no pair) does not change that, and a y or z
\* coordinate with no pair read in the entity is 0.0 in the vertex buffer
\* the triangle is made of.
C30_SuccessIffThreeNumericX ==
    Scanned =>
        /\ calc.scan.returned <=>
               \A k \in XCodes :
                   \E p \in EntityPairs :
                       p[1] = CodeNumber(k) /\ Stod(p[2]).ok
        /\ calc.op = "codes" =>
               (calc.scan.returned <=>
                    \A k \in XCodes : calc.kinds[k] = "numeric")
        /\ \A k \in YZCodes :
               (\A p \in EntityPairs : p[1] # CodeNumber(k))
                   => CoordinateOf(calc.scan.vertices, k) = 0

\* The subroutine returned true on an entity with a numeric x for each
\* vertex, a malformed y or z, and no pair for another y or z.
C30_Witness ==
    /\ Scanned
    /\ calc.op = "codes"
    /\ calc.scan.returned
    /\ \E k \in YZCodes : calc.kinds[k] = "malformed"
    /\ \E k \in YZCodes :
           /\ calc.kinds[k] = "absent"
           /\ CoordinateOf(calc.scan.vertices, k) = 0
    /\ \E k \in 1..Len(CoordinateCodes) :
           /\ calc.kinds[k] = "numeric"
           /\ CoordinateOf(calc.scan.vertices, k) # 0

\* The lines without line k (0-based).
WithoutLine(ls, k) == SubSeq(ls, 1, k) \o SubSeq(ls, k + 2, Len(ls))

\* The subroutine is on a line, in group-code position, that is no integer.
OnStrayLine ==
    /\ pc = "face"
    /\ index < Len(lines)
    /\ Line(lines, index) # S0
    /\ ~Stoi(Line(lines, index)).ok

\* The subroutine is on a line, in group-code position, that is an integer
\* and has a line after it.
OnPair ==
    /\ pc = "face"
    /\ index + 1 < Len(lines)
    /\ Line(lines, index) # S0
    /\ Stoi(Line(lines, index)).ok

\* What the rest of the subroutine gives from the line at index on.
RestOfFace(ls) == FaceScan(ls, index, vertices, hasVertex)

\* A step of the subroutine on a stray line moves the index by one and
\* leaves the buffer and the marks alone; a step on a pair moves it by two.
StrayOrPairStep ==
    /\ OnStrayLine =>
           /\ pc' = "face"
           /\ index' = index + 1
           /\ vertices' = vertices
           /\ hasVertex' = hasVertex
    /\ OnPair => pc' = "face" /\ index' = index + 2

\* C31: inside a 3DFACE entity a line in group-code position that is no
\* integer is skipped alone (the index moves by one, the buffer is left as
\* it is, and the next line is in group-code position), while a line that is
\* an integer is consumed with the value line after it (the index moves by
\* two); so the subroutine ends with the vertices, the populated marks and
\* the outcome that the same lines without the stray line give, one line
\* further.
C31_StrayLineSkippedAlone ==
    /\ [](OnStrayLine =>
             LET with == RestOfFace(lines)
                 without == RestOfFace(WithoutLine(lines, index))
             IN  /\ with.vertices = without.vertices
                 /\ with.hasVertex = without.hasVertex
                 /\ with.index = without.index + 1)
    /\ [][StrayOrPairStep]_vars

\* The subroutine is on the stray first line of an entity whose pairs, all
\* after it, give the three vertices.
C31_Witness ==
    /\ OnStrayLine
    /\ lines = Hdr \o Face(BodyStray) \o Trailer
    /\ index = Len(Hdr) + 2
    /\ FaceComplete(RestOfFace(lines).hasVertex)
    /\ RestOfFace(lines).vertices[1].x # 0

\* The 3DFACE entity whose marker is at k gives a triangle.
FaceYields(ls, k) ==
    FaceComplete(FaceScan(ls, k + 2, NoVertices, NoHasVertex).hasVertex)

\* Whether an ENTITIES section is open after the lines lo .. hi - 1 of the
\* text, read marker by marker (inSection: whether one is open before
\* them): a SECTION/2/ENTITIES marker opens one, an ENDSEC marker closes it.
RECURSIVE SectionOpen(_, _, _, _)
SectionOpen(ls, lo, hi, inSection) ==
    IF hi <= lo THEN inSection
    ELSE IF hi = lo + 1
    THEN IF IsEntitiesStart(ls, lo) THEN TRUE
         ELSE IF IsSectionEnd(ls, lo) THEN FALSE
         ELSE inSection
    ELSE IF SectionOpen(ls, lo, (lo + hi) \div 2, inSection)
    THEN SectionOpen(ls, (lo + hi) \div 2, hi, TRUE)
    ELSE SectionOpen(ls, (lo + hi) \div 2, hi, FALSE)

\* The marker at line k lies in an ENTITIES section of the text.
InEntitiesSectionOfText(ls, k) == SectionOpen(ls, 0, k, FALSE)

\* A step of a read on the mesh: a triangle is only ever appended, it is the
\* triangle of the 3DFACE entity at the cursor, that entity lies in an
\* ENTITIES section of the text, and the cursor then moves past it; the
\* cursor never moves back; an entity that parses successfully adds one
\* triangle.
MeshOrderStep ==
    /\ (pc \in {"scan", "face"} /\ meshData' # meshData) =>
           /\ pc = "face"
           /\ FaceMarkerAt(lines, i)
           /\ InEntitiesSectionOfText(lines, i)
           /\ meshData' = Append(meshData, OwnTriangle(lines, i))
           /\ i' > i
    /\ (pc \in {"scan", "face"} /\ pc' \in {"scan", "face"}) => i' >= i
    /\ (pc = "face" /\ pc' = "scan" /\ FaceYields(lines, i)) =>
           Len(meshData') = Len(meshData) + 1

\* C32 (as claimed): the mesh lists the triangles in the order in which
\* their 3DFACE entities appear in the file, one triangle per successfully
\* parsed entity, across all ENTITIES sections: a face between an ENDSEC and
\* the next SECTION/2/ENTITIES marker adds nothing, and the faces of a later
\* ENTITIES section are appended after those of an earlier one.
C32_MeshInFileOrderAcrossSections == [][MeshOrderStep]_vars

\* A step of the scan: an iteration of the loop of parseFile that does not
\* enter the subroutine moves the cursor by 1, 2 or 4; one that does leaves
\* the cursor where the subroutine stopped, at least 2 further; an iteration
\* of the loop of the subroutine moves its index by 1 or 2; no step moves
\* past the line count; and the scan ends at the line count, only there.
TerminationStep ==
    /\ (pc = "scan" /\ pc' = "scan") =>
           i' \in {i + 1, i + 2, i + 4} /\ i' <= Len(lines)
    /\ (pc = "scan" /\ pc' = "face") => i' = i /\ index' = i + 2
    /\ (pc = "face" /\ pc' = "face") =>
           /\ index' \in {index + 1, index + 2}
           /\ index' <= Len(lines)
           /\ i' = i
    /\ (pc = "face" /\ pc' = "scan") =>
           i' = index /\ i' >= i + 2 /\ i' <= Len(lines)
    /\ (pc \in {"scan", "face"} /\ pc' = "done") =>
           pc = "scan" /\ i = Len(lines)
    /\ (pc = "scan" /\ i = Len(lines)) => pc' = "done"

\* C34: the scan terminates on every input: a read that scans a file ends;
\* each iteration of the loop of parseFile moves the cursor forward (by 1,
\* 2, 4, or to where the subroutine stopped, at least 2 further), each
\* iteration of the loop of the subroutine stops or moves its index by 1 or
\* 2, and the scan ends exactly when the cursor is the line count.
C34_ScanTerminates ==
    /\ [][TerminationStep]_vars
    /\ (pc \in {"scan", "face"}) ~> (pc = "done" /\ i = Len(lines))

\* The scan of a file with a stray line, a dropped entity and two sections
\* has ended with the cursor at the line count.
C34_Witness ==
    /\ pc = "done"
    /\ lines = Hdr \o Face(BodyStray) \o End \o Hdr \o Face(BodyDangling)
    /\ i = Len(lines)
    /\ Len(meshData) = 1

\* C35: every line the scanner reads exists, whatever the file, also one
\* that ends in the middle of a marker or of a pair: the cursor of
\* parseFile and the index of the subroutine never exceed the line count,
\* an iteration of either loop reads lines[i], lines[i + 1], lines[i + 2],
\* lines[i + 3] (lines[index], lines[index + 1]) only below the line count,
\* and the subroutine, after which the progress fraction is computed, only
\* runs on lines that are not empty.
C35_EveryLineAccessInBounds ==
    /\ i <= Len(lines)
    /\ index <= Len(lines)
    /\ (pc = "scan" /\ i < Len(lines)) =>
           \A k \in ScanAccesses(lines, i) : k < Len(lines)
    /\ (pc = "face" /\ index < Len(lines)) =>
           \A k \in FaceAccesses(lines, index) : k < Len(lines)
    /\ pc = "face" => Len(lines) > 0

\* The cursor is on the "0" of a section start cut after 0, SECTION, 2: the
\* test i + 3 < lines.size() fails and lines[i + 2], lines[i + 3] are not
\* read.
C35_Witness ==
    /\ pc = "scan"
    /\ lines = Hdr \o <<S0, SECTION, S2>>
    /\ i = Len(lines) - 3
    /\ inEntitiesSection
    /\ ScanAccesses(lines, i) = {i, i + 1}

\* The failures of a read that are thrown before the file is parsed.
OpenFailures == {OpenOutcome(kind) : kind \in {"missing", "directory", "unreadable"}}

\* A call of read that ends with one of the failures thrown before the file
\* is parsed leaves the entity count as it was before the call.
FailedOpenKeepsCount ==
    (pc = "idle" /\ pc' = "done" /\ result' \in OpenFailures)
        => lastEntityCount_' = lastEntityCount_

\* C36: the entity count is reset only once a file has been opened for
\* parsing: a read that fails with FileNotFound, NotARegularFile or
\* CannotOpenFile leaves getLastEntityCount() as it was before the call, a
\* read that fails with NoEntitiesFound leaves it 0, and the only step that
\* can lower the count is the one that opens a file.
C36_CountResetOnlyAfterOpen ==
    /\ [][FailedOpenKeepsCount]_vars
    /\ [][lastEntityCount_' < lastEntityCount_ => (pc = "idle" /\ pc' = "scan")]_vars
    /\ []((pc = "done" /\ result \in OpenFailures) => (hadCount <=> lastEntityCount_ # 0))
    /\ []((pc = "done" /\ result = "NoEntitiesFound") => lastEntityCount_ = 0)

\* A reader that has parsed the two-face file was given a path that names
\* no file: the count still shows the two entities.
C36_Witness ==
    /\ pc = "done"
    /\ result = "FileNotFound"
    /\ hadCount
    /\ earlier.lines = SampleFile
    /\ lastEntityCount_ = 2

\* The every-100th-entity reports that the scan of the lines makes when no
\* report raises.
InLoopReports(ls, size) ==
    IF size > 0 THEN Len(MeshOf(ls)) \div ProgressEvery ELSE 0

\* The callback was invoked for the time at which it raises.
CallbackRaised ==
    /\ calc.op = "callback"
    /\ progressCallback_
    /\ Len(progressValues) >= calc.at

\* The raising invocation ended the read: no mesh is returned and the
\* callback is not invoked again.
RaiseEndsRead ==
    CallbackRaised =>
        /\ pc = "done"
        /\ result \notin {"mesh", "none"}
        /\ Len(progressValues) = calc.at

\* The raising invocation was an every-100th-entity report.
RaisedInLoop == CallbackRaised /\ calc.at <= InLoopReports(lines, fileSize)

\* C37 as stated: an exception raised by the progress callback always ends
\* the read without a mesh; raised during an every-100th-entity report it
\* reaches the caller wrapped as ParseError and the final 1.0 report is not
\* made; raised during the final 1.0 report it reaches the caller as raised.
C37_CallbackRaiseWrappedInLoop ==
    /\ RaiseEndsRead
    /\ (pc = "done" /\ CallbackRaised) =>
           IF RaisedInLoop
           THEN result = "ParseError" /\ i < Len(lines)
           ELSE result = "CallbackError" /\ i = Len(lines)

\* C37, amended: an exception raised by the progress callback always ends
\* the read without a mesh and without a further report; raised during an
\* every-100th-entity report it reaches the caller wrapped as ParseError if
\* its class derives from std::exception and as raised if not; raised during
\* the final 1.0 report it reaches the caller as raised.
C37_CallbackRaiseWrappedIfStdException ==
    /\ RaiseEndsRead
    /\ (pc = "done" /\ CallbackRaised) =>
           IF RaisedInLoop
           THEN /\ i < Len(lines)
                /\ calc.raises = "std::exception" => result = "ParseError"
                /\ calc.raises # "std::exception" => result = "CallbackError"
           ELSE result = "CallbackError" /\ i = Len(lines)

\* The callback raised an exception of a class derived from std::exception
\* at the second every-100th-entity report of the large file: the read
\* ended with ParseError, the cursor on the entity, two reports received.
C37_Witness ==
    /\ pc = "done"
    /\ lines = BigFile
    /\ calc.op = "callback"
    /\ calc.raises = "std::exception"
    /\ calc.at = 2
    /\ progressCallback_
    /\ Len(progressValues) = 2
    /\ result = "ParseError"
    /\ i < Len(lines)

\* The value, as the switch stores it, of the pair with the code given among
\* the pairs ps; 0.0 when no pair has that code.
ValueOfCode(ps, code) ==
    IF \E a \in DOMAIN ps : Stoi(ps[a][1]).val = code
    THEN Coordinate(ps[CHOOSE a \in DOMAIN ps : Stoi(ps[a][1]).val = code][2])
    ELSE 0

\* The triangle whose vertex k has the values of the codes 1k, 2k and 3k.
TriangleOfCodes(ps) ==
    [k \in 1..3 |->
        Point3D(ValueOfCode(ps, 10 + k - 1),
                ValueOfCode(ps, 20 + k - 1),
                ValueOfCode(ps, 30 + k - 1))]

\* C33: on a well-formed 3DFACE entity with at most one pair per code the
\* subroutine returns true, and the triangle has, for vertex k, the values
\* of the codes 1k, 2k and 3k as x, y and z, in whatever order the pairs
\* stand in the entity: every permutation of the pairs gives the same
\* triangle.
C33_TriangleByCodeNotByOrder ==
    (calc.op = "permuted" /\ calc.done) =>
        /\ calc.scan.returned
        /\ Triangle(calc.scan.vertices[1], calc.scan.vertices[2],
                    calc.scan.vertices[3])
               = TriangleOfCodes(PairsInOrder(calc.order))
        /\ calc.scan.index = Len(calc.text) - Len(End)

\* The subroutine returned on an entity that gives its six pairs with the x
\* of vertex 2 first and the x of vertex 0 last.
C33_Witness ==
    /\ calc.op = "permuted"
    /\ calc.done
    /\ Len(calc.order) = Len(WellFormedPairs)
    /\ calc.order[1] = 3
    /\ calc.order[Len(calc.order)] = 1
    /\ calc.scan.vertices[1].x = Stod(V1).val
    /\ calc.scan.vertices[3].x = Stod(V5).val
    /\ calc.scan.vertices[2].z = Stod(VNeg4).val

\* The places in the pairs of the pairs with the k-th coordinate code.
PlacesOfCode(ps, k) == {a \in DOMAIN ps : ps[a][1] = CoordinateCodes[k]}

\* The value of the last of the pairs with the k-th coordinate code.
LastValueOfCode(ps, k) ==
    ps[CHOOSE a \in PlacesOfCode(ps, k) :
           \A b \in PlacesOfCode(ps, k) : b <= a][2]

\* C38: when a coordinate code occurs more than once inside one 3DFACE
\* entity the last pair wins: the coordinate of the triangle is the value
\* of the last pair with that code, 0.0 if that value is malformed; a vertex
\* slot that a numeric x pair marked populated stays populated whatever the
\* later pairs with the same code contain, so the subroutine returns true
\* when each x code has a numeric pair somewhere in the entity.
C38_LastPairWinsMarkSticks ==
    (calc.op = "repeated" /\ calc.done) =>
        /\ \A k \in DOMAIN CoordinateCodes :
               PlacesOfCode(calc.given, k) # {} =>
                   CoordinateOf(calc.scan.vertices, k) =
                       IF Stod(LastValueOfCode(calc.given, k)).ok
                       THEN Stod(LastValueOfCode(calc.given, k)).val
                       ELSE 0
        /\ calc.scan.returned <=>
               \A k \in XCodes :
                   \E a \in PlacesOfCode(calc.given, k) :
                       Stod(calc.given[a][2]).ok
        /\ calc.scan.returned

\* The subroutine returned true on an entity that gives the x of vertex 0
\* twice as a number and the x of vertex 1 as a number, then malformed: the
\* second number is the x of vertex 0, and the x of vertex 1 is 0.0.
C38_Witness ==
    /\ calc.op = "repeated"
    /\ calc.done
    /\ calc.given = <<<<K10, V7>>, <<K10, V1>>, <<K11, V3>>, <<K11, JUNK>>,
                      <<K12, V5>>>>
    /\ calc.scan.returned
    /\ calc.scan.vertices[1].x = Stod(V1).val
    /\ calc.scan.vertices[2].x = 0
    /\ calc.scan.vertices[3].x = Stod(V5).val
====
